---- MODULE Spec2Model ----
(***************************************************************************)
(* Tool-integrity registry of mcp-tls (package mcp, tools.go) together     *)
(* with the canonical hashing it is built on and the checksum of package   *)
(* validate that the HTTP registration handler uses.                       *)
(*                                                                         *)
(* JSON text (json.RawMessage) is modelled as a syntax tree that keeps     *)
(* what the bytes carry beyond the value: the order of object members and  *)
(* whether insignificant whitespace is present.  Decoded values            *)
(* (interface{} / map[string]any) are trees whose objects are functions    *)
(* from keys to values, so member order is lost by decoding and is         *)
(* re-created, sorted, by encoding, as encoding/json does.                 *)
(* Go strings that may hold a hex digest are tuples: <<>> is "", and       *)
(* <<"sha256", d>> is the hex digest of the bytes d (SHA-256 is taken to   *)
(* be injective).                                                          *)
(***************************************************************************)
EXTENDS Integers, Sequences, FiniteSets, TLC

VARIABLES tr, heap, ret, pure, procs

vars == <<tr, heap, ret, pure, procs>>

(***************************************************************************)
(* Bounds                                                                  *)
(***************************************************************************)
MaxMembers == 2   \* members of a generated JSON object
MaxAddr == 4      \* byte buffers / maps that can be live at once

(***************************************************************************)
(* JSON text and JSON values                                               *)
(***************************************************************************)
\* every object key that occurs, in the byte order encoding/json sorts by
KeyOrder ==
  << "a", "annotations", "arguments", "b", "checksum", "description",
     "destructiveHint", "fingerprint", "idempotentHint", "inputSchema", "name",
     "openWorldHint", "outputSchema", "p", "parameters", "public_key_id",
     "readOnlyHint", "schema", "secMetaData", "signature", "source", "title",
     "version" >>

Node(t, n, s, m, ws) == [t |-> t, n |-> n, s |-> s, m |-> m, ws |-> ws]

JNull == Node("null", 0, <<>>, <<>>, FALSE)
JNum(i) == Node("num", i, <<>>, <<>>, FALSE)
JBool(b) == Node("bool", IF b THEN 1 ELSE 0, <<>>, <<>>, FALSE)
JStr(s) == Node("str", 0, s, <<>>, FALSE)
JText(x) == JStr(<<x>>)
JObj(m, ws) == Node("obj", 0, <<>>, m, ws)
Member(k, v) == [k |-> k, v |-> v]

\* a nil json.RawMessage, and bytes that are not a JSON document
RawNil == Node("nil", 0, <<>>, <<>>, FALSE)
RawBad == Node("bad", 0, <<>>, <<>>, FALSE)

RECURSIVE WellFormed(_)
WellFormed(d) ==
  /\ d.t \in {"null", "num", "bool", "str", "obj"}
  /\ \A i \in DOMAIN d.m : WellFormed(d.m[i].v)

\* index of the last member with key k (a repeated key: the last one wins)
LastIdx(m, k) ==
  CHOOSE i \in DOMAIN m : m[i].k = k /\ \A j \in DOMAIN m : m[j].k = k => j <= i

\* json.Unmarshal(data, &obj) with obj of type any, on well-formed data
RECURSIVE Unmarshal(_)
Unmarshal(d) ==
  IF d.t = "obj"
  THEN LET ks == {d.m[i].k : i \in DOMAIN d.m}
       IN  [t |-> "map", f |-> [k \in ks |-> Unmarshal(d.m[LastIdx(d.m, k)].v)]]
  ELSE d

SortKeys(ks) == SelectSeq(KeyOrder, LAMBDA k : k \in ks)

\* json.Marshal(obj) of a decoded value: map keys sorted, no whitespace
RECURSIVE Marshal(_)
Marshal(v) ==
  IF v.t = "map"
  THEN LET sk == SortKeys(DOMAIN v.f)
       IN  JObj([i \in DOMAIN sk |-> Member(sk[i], Marshal(v.f[sk[i]]))], FALSE)
  ELSE v

\* what json.Marshal emits for a json.RawMessage field: the bytes compacted
RECURSIVE Compact(_)
Compact(d) ==
  IF d.t = "obj"
  THEN JObj([i \in DOMAIN d.m |-> Member(d.m[i].k, Compact(d.m[i].v))], FALSE)
  ELSE d

Ok(out) == [err |-> FALSE, out |-> out]
Fail(zero) == [err |-> TRUE, out |-> zero]

canonicalizeJson_compact(data) ==
  IF ~WellFormed(data) THEN Fail(RawNil) ELSE Ok(Compact(data))

canonicalizeJson(data) ==
  IF ~WellFormed(data) THEN Fail(RawNil) ELSE Ok(Marshal(Unmarshal(data)))

\* hex.EncodeToString(sha256.Sum256(bytes))
NoStamp == <<>>
sha256hex(bytes) == <<"sha256", bytes>>

generateSchemaFingerprint(schema) ==
  LET canonical == canonicalizeJson(schema)
  IN  IF canonical.err THEN Fail(NoStamp) ELSE Ok(sha256hex(canonical.out))

(***************************************************************************)
(* Tool, SecurityMetadata, ToolAnnotation                                  *)
(***************************************************************************)
ZeroAnnotations ==
  [Title |-> "", ReadOnlyHint |-> FALSE, DestructiveHint |-> FALSE,
   IdempotentHint |-> FALSE, OpenWorldHint |-> FALSE]

ZeroSecurityMetadata ==
  [Source |-> "", Signature |-> NoStamp, PublicKeyID |-> "", Version |-> "",
   Checksum |-> NoStamp]

\* Tool{} with the reference-typed fields (Arguments, Parameters,
\* InputSchema, OutputSchema) holding their contents
ZeroTool ==
  [Name |-> "", Description |-> "", Arguments |-> RawNil, Parameters |-> JNull,
   InputSchema |-> RawNil, OutputSchema |-> RawNil,
   Annotations |-> ZeroAnnotations, SecurityMetadata |-> ZeroSecurityMetadata]

IsEmpty(s) ==
  /\ s.Source = "" /\ s.Signature = NoStamp
  /\ s.PublicKeyID = "" /\ s.Version = ""
  /\ s.Checksum = NoStamp

If(c, member) == IF c THEN <<member>> ELSE <<>>

\* json.Marshal of ToolAnnotation: every field is omitempty
MarshalAnnotations(a) ==
  JObj(If(a.Title # "", Member("title", JText(a.Title)))
       \o If(a.ReadOnlyHint, Member("readOnlyHint", JBool(TRUE)))
       \o If(a.DestructiveHint, Member("destructiveHint", JBool(TRUE)))
       \o If(a.IdempotentHint, Member("idempotentHint", JBool(TRUE)))
       \o If(a.OpenWorldHint, Member("openWorldHint", JBool(TRUE))), FALSE)

\* json.Marshal of SecurityMetadata: every field is omitempty
MarshalSecurityMetadata(s) ==
  JObj(If(s.Source # "", Member("source", JText(s.Source)))
       \o If(s.Signature # NoStamp, Member("signature", JStr(s.Signature)))
       \o If(s.PublicKeyID # "", Member("public_key_id", JText(s.PublicKeyID)))
       \o If(s.Version # "", Member("version", JText(s.Version)))
       \o If(s.Checksum # NoStamp, Member("checksum", JStr(s.Checksum))), FALSE)

\* a json.RawMessage field: nil encodes as null, other bytes must be JSON
RawField(raw) == IF raw = RawNil THEN JNull ELSE Compact(raw)
RawFieldOk(raw) == raw = RawNil \/ WellFormed(raw)

\* json.Marshal(tool): the members in the order of the struct's fields
MarshalTool(tool) ==
  IF ~(RawFieldOk(tool.Arguments) /\ RawFieldOk(tool.InputSchema)
       /\ RawFieldOk(tool.OutputSchema))
  THEN Fail(RawNil)
  ELSE Ok(JObj(<< Member("name", JText(tool.Name)),
                  Member("description", JText(tool.Description)),
                  Member("arguments", RawField(tool.Arguments)),
                  Member("parameters", Marshal(tool.Parameters)),
                  Member("inputSchema", RawField(tool.InputSchema)),
                  Member("outputSchema", RawField(tool.OutputSchema)),
                  Member("annotations", MarshalAnnotations(tool.Annotations)),
                  Member("secMetaData",
                         MarshalSecurityMetadata(tool.SecurityMetadata)) >>,
               FALSE))

ChecksumOf(toolCopy) ==
  LET data == MarshalTool(toolCopy)
  IN  IF data.err THEN Fail(NoStamp)
      ELSE LET canonical == canonicalizeJson(data.out)
           IN  IF canonical.err THEN Fail(NoStamp)
               ELSE Ok(sha256hex(canonical.out))

generateToolChecksum_withOutput(tool) ==
  ChecksumOf([ZeroTool EXCEPT !.Name = tool.Name,
                              !.Description = tool.Description,
                              !.InputSchema = tool.InputSchema,
                              !.OutputSchema = tool.OutputSchema])

\* package mcp: the checksum the registry stamps and recomputes
generateToolChecksum(tool) ==
  ChecksumOf([ZeroTool EXCEPT !.Name = tool.Name,
                              !.Description = tool.Description,
                              !.InputSchema = tool.InputSchema])

\* package validate: the checksum the registration handler demands
GenerateToolChecksum(tool) == ChecksumOf(tool)

\* package validate: same body as the registry's fingerprint
GenerateSchemaFingerprint(schema) ==
  LET canonical == canonicalizeJson(schema)
  IN  IF canonical.err THEN Fail(NoStamp) ELSE Ok(sha256hex(canonical.out))

\* SecureTool: stamp a tool with its fingerprint and checksum
SecureTool(tool) ==
  LET fingerprint == generateSchemaFingerprint(tool.InputSchema)
      checksum == generateToolChecksum(tool)
  IN  IF fingerprint.err \/ checksum.err THEN Fail(tool)
      ELSE Ok([tool EXCEPT !.SecurityMetadata =
                 [ZeroSecurityMetadata EXCEPT !.Signature = fingerprint.out,
                                              !.Checksum = checksum.out]])

(***************************************************************************)
(* Memory.  Arguments, InputSchema and OutputSchema are byte slices and    *)
(* Parameters is a map: a Tool struct holds references to them, and a      *)
(* copy of the struct holds the same references.  heap maps the addresses  *)
(* in use to their contents; 0 is nil.                                     *)
(***************************************************************************)
Addrs == 1..MaxAddr
NilRef == 0

Min(S) == CHOOSE x \in S : \A y \in S : x <= y

\* the Tool struct of a ZeroTool: every reference is nil
ZeroToolRef ==
  [ZeroTool EXCEPT !.Arguments = NilRef, !.Parameters = NilRef,
                   !.InputSchema = NilRef, !.OutputSchema = NilRef]

Load(h, a, nil) == IF a = NilRef THEN nil ELSE h[a]

\* the contents a Tool struct denotes in memory h
Deref(h, t) ==
  [t EXCEPT !.Arguments = Load(h, t.Arguments, RawNil),
            !.Parameters = Load(h, t.Parameters, JNull),
            !.InputSchema = Load(h, t.InputSchema, RawNil),
            !.OutputSchema = Load(h, t.OutputSchema, RawNil)]

\* a fresh buffer for content (none for nil), at the lowest free address
AllocField(h, content, nil) ==
  IF content = nil THEN [heap |-> h, ref |-> NilRef]
  ELSE LET a == Min(Addrs \ DOMAIN h)
       IN  [heap |-> h @@ (a :> content), ref |-> a]

Cells(tv) ==
  (IF tv.Arguments = RawNil THEN 0 ELSE 1) + (IF tv.Parameters = JNull THEN 0 ELSE 1)
  + (IF tv.InputSchema = RawNil THEN 0 ELSE 1)
  + (IF tv.OutputSchema = RawNil THEN 0 ELSE 1)

\* a Tool built by a caller or a decoder: its contents in fresh buffers
Alloc(h, tv) ==
  LET a1 == AllocField(h, tv.Arguments, RawNil)
      a2 == AllocField(a1.heap, tv.Parameters, JNull)
      a3 == AllocField(a2.heap, tv.InputSchema, RawNil)
      a4 == AllocField(a3.heap, tv.OutputSchema, RawNil)
  IN  [heap |-> a4.heap,
       tool |-> [tv EXCEPT !.Arguments = a1.ref, !.Parameters = a2.ref,
                           !.InputSchema = a3.ref, !.OutputSchema = a4.ref]]

Refs(t) == {t.Arguments, t.Parameters, t.InputSchema, t.OutputSchema} \ {NilRef}

(***************************************************************************)
(* ToolRegistry                                                            *)
(***************************************************************************)
NoError == "nil"

\* string order on the tool names in use
NameOrder == << "", "alpha", "beta" >>
NameRank(x) == CHOOSE i \in DOMAIN NameOrder : NameOrder[i] = x
NameLess(x, y) == NameRank(x) < NameRank(y)

NoTools == [k \in {} |-> ZeroToolRef]

\* NewToolRegistry(securityEnabled)
NewToolRegistry(securityEnabled) ==
  [toolRepo |-> "", apiKey |-> "", tools |-> NoTools, nilMap |-> FALSE,
   securityEnabled |-> securityEnabled, validateChecksums |-> FALSE,
   rejectUnsignedTools |-> FALSE]

SetRegistryCreds(r, url, apiKey) ==
  [r EXCEPT !.toolRepo = url, !.apiKey = apiKey]

SetSecurityOptions(r, validateChecksums, rejectUnsignedTools) ==
  [r EXCEPT !.validateChecksums = validateChecksums,
            !.rejectUnsignedTools = rejectUnsignedTools]

\* the stamping part of RegisterTool: the tool to store, or the error
Stamp(r, h, tool) ==
  LET tv == Deref(h, tool)
      checksum == generateToolChecksum(tv)
      fingerprint == generateSchemaFingerprint(tv.InputSchema)
      needChecksum == r.securityEnabled /\ tool.SecurityMetadata.Checksum = NoStamp
      needSignature == r.securityEnabled /\ tool.SecurityMetadata.Signature = NoStamp
      t1 == IF needChecksum
            THEN [tool EXCEPT !.SecurityMetadata.Checksum = checksum.out]
            ELSE tool
      t2 == IF needSignature
            THEN [t1 EXCEPT !.SecurityMetadata.Signature = fingerprint.out]
            ELSE t1
  IN  IF (needChecksum /\ checksum.err) \/ (needSignature /\ fingerprint.err)
      THEN [err |-> "canonicalize", tool |-> tool]
      ELSE [err |-> NoError, tool |-> t2]

\* RegisterTool(tool): the registry after the call and the error returned;
\* an assignment to an entry of a nil map panics
RegisterTool(r, h, tool) ==
  LET st == Stamp(r, h, tool)
  IN  IF st.err # NoError THEN [tr |-> r, err |-> st.err]
      ELSE IF tool.Name \in DOMAIN r.tools THEN [tr |-> r, err |-> NoError]
      ELSE IF r.nilMap THEN [tr |-> r, err |-> "panic"]
      ELSE [tr |-> [r EXCEPT !.tools = @ @@ (tool.Name :> st.tool)],
            err |-> NoError]

\* the checks of GetTool on a stored tool, in the order of the code
ChecksumCheck(r, h, tool) ==
  LET expectedChecksum == generateToolChecksum(Deref(h, tool))
  IN  IF ~(r.securityEnabled /\ r.validateChecksums) THEN NoError
      ELSE IF expectedChecksum.err THEN "failed to generate expected checksum"
      ELSE IF expectedChecksum.out # tool.SecurityMetadata.Checksum
           THEN "tool checksum validation failed"
      ELSE NoError

FingerprintCheck(r, h, tool) ==
  LET expectedSignature == generateSchemaFingerprint(Deref(h, tool).InputSchema)
  IN  IF ~(r.securityEnabled /\ r.validateChecksums) THEN NoError
      ELSE IF expectedSignature.err THEN "failed to generate expected signature"
      ELSE IF expectedSignature.out # tool.SecurityMetadata.Signature
           THEN "schema fingerprint validation failed"
      ELSE NoError

UnsignedCheck_off(r, tool) == NoError

UnsignedCheck(r, tool) ==
  IF r.securityEnabled /\ r.rejectUnsignedTools
     /\ (tool.SecurityMetadata.Checksum = NoStamp
         \/ tool.SecurityMetadata.Signature = NoStamp)
  THEN "unsigned tool rejected"
  ELSE NoError

First(errs) ==
  IF \E i \in DOMAIN errs : errs[i] # NoError
  THEN errs[Min({i \in DOMAIN errs : errs[i] # NoError})]
  ELSE NoError

GetToolResult_failOpen(r, tool, err) == [tr |-> r, tool |-> tool, err |-> err]

GetToolResult(r, tool, err) ==
  [tr |-> r, tool |-> IF err = NoError THEN tool ELSE ZeroToolRef, err |-> err]

GetTool_restamp(r, h, name) ==
  IF name \notin DOMAIN r.tools
  THEN GetToolResult(r, ZeroToolRef, "tool not found")
  ELSE LET tool == r.tools[name]
           err == First(<< ChecksumCheck(r, h, tool), FingerprintCheck(r, h, tool),
                           UnsignedCheck(r, tool) >>)
       IN  GetToolResult(
             IF err = "tool checksum validation failed"
             THEN [r EXCEPT !.tools[name].SecurityMetadata.Checksum =
                              generateToolChecksum(Deref(h, tool)).out]
             ELSE r, tool, err)

\* GetTool(name): the registry after the call, the Tool and the error
\* a GetTool that rejects unsigned tools before it compares the stamps
GetTool_unsignedFirst(r, h, name) ==
  IF name \notin DOMAIN r.tools
  THEN GetToolResult(r, ZeroToolRef, "tool not found")
  ELSE LET tool == r.tools[name]
       IN  GetToolResult(r, tool,
             First(<< UnsignedCheck(r, tool), ChecksumCheck(r, h, tool),
                      FingerprintCheck(r, h, tool) >>))

GetTool(r, h, name) ==
  IF name \notin DOMAIN r.tools
  THEN GetToolResult(r, ZeroToolRef, "tool not found")
  ELSE LET tool == r.tools[name]
       IN  GetToolResult(r, tool,
             First(<< ChecksumCheck(r, h, tool), FingerprintCheck(r, h, tool),
                      UnsignedCheck(r, tool) >>))

\* the orders in which a range over the map can visit its keys
Perms(S) ==
  {p \in [1..Cardinality(S) -> S] : \A i, j \in DOMAIN p : p[i] = p[j] => i = j}

SortByName_none(tools) == {tools}

\* sort.Slice by Name (not stable): the orderings it can leave
SortByName(tools) ==
  {[i \in DOMAIN tools |-> tools[p[i]]] : p \in
     {q \in Perms(DOMAIN tools) :
        \A i, j \in DOMAIN tools :
          i < j => ~NameLess(tools[q[j]].Name, tools[q[i]].Name)}}

ZeroToolSet ==
  [Tools |-> <<>>, SecurityEnabled |-> FALSE, SchemaFingerprintAlgo |-> "",
   ChecksumAlgo |-> ""]

ToolSet(r, tools) ==
  [Tools |-> tools, SecurityEnabled |-> r.securityEnabled,
   SchemaFingerprintAlgo |-> "SHA-256", ChecksumAlgo |-> "SHA-256"]

\* ListTools() when the range visits the keys in the given order: the
\* ToolSets it can return
ListTools(r, order) ==
  {ToolSet(r, sorted) : sorted \in SortByName([i \in DOMAIN order |-> r.tools[order[i]]])}

\* a LoadTools that empties the map before it asks the repository
LoadTools_clearFirst(r, resp) ==
  IF r.apiKey = "" \/ r.toolRepo = ""
  THEN [tr |-> r, err |-> "missing tool repo credentials"]
  ELSE IF resp.kind # "ok" THEN [tr |-> [r EXCEPT !.tools = NoTools], err |-> resp.kind]
  ELSE [tr |-> [r EXCEPT !.tools = resp.tools, !.nilMap = resp.nilMap],
        err |-> NoError]

\* LoadTools() given what the HTTP GET and the decoder produce: resp.kind
\* is "request failed", "status" (not 200), "decode failed" or "ok", and
\* for "ok" resp.nilMap / resp.tools is the decoded map
LoadTools(r, resp) ==
  IF r.apiKey = "" \/ r.toolRepo = ""
  THEN [tr |-> r, err |-> "missing tool repo credentials"]
  ELSE IF resp.kind # "ok" THEN [tr |-> r, err |-> resp.kind]
  ELSE [tr |-> [r EXCEPT !.tools = resp.tools, !.nilMap = resp.nilMap],
        err |-> NoError]

(***************************************************************************)
(* Inputs                                                                  *)
(***************************************************************************)
Names == {"alpha", "beta"}
Descriptions == {"A test tool", "Tampered description"}

SchemaA == JObj(<< Member("a", JNum(1)) >>, FALSE)    \* {"a":1}
SchemaB == JObj(<< Member("a", JNum(2)) >>, FALSE)    \* {"a":2}

MkTool(name, description, schema) ==
  [ZeroTool EXCEPT !.Name = name, !.Description = description,
                   !.InputSchema = schema]

BogusSignature == [ZeroSecurityMetadata EXCEPT !.Signature = <<"bogus">>]

\* tools handed to RegisterTool: unstamped ones, one stamped by SecureTool,
\* one with a schema that is not JSON, one with a signature of unknown origin
RegisterInputs ==
  { MkTool("alpha", "A test tool", SchemaA),
    MkTool("alpha", "Tampered description", SchemaA),
    MkTool("alpha", "A test tool", SchemaB),
    MkTool("alpha", "A test tool", RawBad),
    SecureTool(MkTool("alpha", "A test tool", SchemaA)).out,
    [MkTool("alpha", "A test tool", SchemaA) EXCEPT !.SecurityMetadata = BogusSignature],
    MkTool("beta", "A test tool", SchemaA) }

\* what the trusted-tool repository can answer with
Catalog(nilMap, tools) == [nilMap |-> nilMap, tools |-> tools]

Catalogs ==
  { Catalog(TRUE, NoTools),
    Catalog(FALSE, NoTools),
    Catalog(FALSE, ("alpha" :> SecureTool(MkTool("alpha", "A test tool", SchemaA)).out)
                   @@ ("beta" :> MkTool("beta", "A test tool", SchemaB))),
    Catalog(FALSE, ("alpha" :> SecureTool(MkTool("alpha", "A test tool", SchemaB)).out)
                   @@ ("beta" :> SecureTool(MkTool("alpha", "A test tool", SchemaA)).out)),
    Catalog(FALSE, ("alpha" :>
      [MkTool("alpha", "A test tool", RawNil) EXCEPT !.SecurityMetadata.Checksum =
         generateToolChecksum(MkTool("alpha", "A test tool", RawNil)).out])) }

Responses ==
  {[kind |-> k, catalog |-> Catalog(TRUE, NoTools)] :
     k \in {"request failed", "status", "decode failed"}}
  \cup {[kind |-> "ok", catalog |-> c] : c \in Catalogs}

\* the decoder allocates the tools of the catalog one after the other
RECURSIVE AllocAll(_, _, _)
AllocAll(h, tools, keys) ==
  IF keys = {} THEN [heap |-> h, tools |-> NoTools]
  ELSE LET k == CHOOSE x \in keys : \A y \in keys : ~NameLess(y, x)
           a == Alloc(h, tools[k])
           rest == AllocAll(a.heap, tools, keys \ {k})
       IN  [heap |-> rest.heap, tools |-> (k :> a.tool) @@ rest.tools]

(***************************************************************************)
(* The state machine: one registry, its callers one call at a time.  ret   *)
(* is the last call and what it returned.                                  *)
(***************************************************************************)
\* what a LoadTools call was answered with when no call was made
NoResponse == [kind |-> "", catalog |-> [nilMap |-> TRUE, tools |-> << >>]]

\* arg is the Tool a RegisterTool call was given, and fresh tells whether
\* its name was absent from the map when the call was made; resp is what the
\* repository answered a LoadTools call with, and before the names the map
\* held when that call was made
Ret(op, name, err, tool, set, arg) ==
  [op |-> op, name |-> name, err |-> err, tool |-> tool, set |-> set, arg |-> arg,
   fresh |-> FALSE, resp |-> NoResponse, before |-> {}]

Live(r, rt) ==
  UNION {Refs(r.tools[k]) : k \in DOMAIN r.tools}
  \cup Refs(rt.tool)
  \cup UNION {Refs(rt.set.Tools[i]) : i \in DOMAIN rt.set.Tools}

\* buffers nothing refers to any more are reclaimed
Collect(h, r, rt) == [a \in DOMAIN h \cap Live(r, rt) |-> h[a]]

Finish(r, h, rt) ==
  /\ tr' = r
  /\ ret' = rt
  /\ heap' = Collect(h, r, rt)
  /\ UNCHANGED <<pure, procs>>

Stored(r, h) == [k \in DOMAIN r.tools |-> Deref(h, r.tools[k])]

PureOff == [stage |-> "off"]

\* no goroutine besides the caller
NoProcs == << >>

Init ==
  /\ \E securityEnabled \in BOOLEAN : tr = NewToolRegistry(securityEnabled)
  /\ heap = << >>
  /\ ret = Ret("NewToolRegistry", "", NoError, ZeroToolRef, ZeroToolSet, ZeroTool)
  /\ pure = PureOff
  /\ procs = NoProcs

RegisterToolCall ==
  \E tv \in RegisterInputs :
    /\ Cardinality(DOMAIN heap) + Cells(tv) <= MaxAddr
    /\ LET a == Alloc(heap, tv)
           res == RegisterTool(tr, a.heap, a.tool)
       IN  Finish(res.tr, a.heap,
                  [Ret("RegisterTool", tv.Name, res.err, ZeroToolRef, ZeroToolSet, tv)
                     EXCEPT !.fresh = tv.Name \notin DOMAIN tr.tools])

GetToolCall ==
  \E name \in Names :
    LET res == GetTool(tr, heap, name)
    IN  Finish(res.tr, heap,
               Ret("GetTool", name, res.err, res.tool, ZeroToolSet, ZeroTool))

ListToolsCall ==
  \E order \in Perms(DOMAIN tr.tools) :
    \E set \in ListTools(tr, order) :
      Finish(tr, heap, Ret("ListTools", "", NoError, ZeroToolRef, set, ZeroTool))

SetSecurityOptionsCall ==
  \E validateChecksums, rejectUnsignedTools \in BOOLEAN :
    Finish(SetSecurityOptions(tr, validateChecksums, rejectUnsignedTools), heap,
           Ret("SetSecurityOptions", "", NoError, ZeroToolRef, ZeroToolSet, ZeroTool))

SetRegistryCredsCall ==
  \E creds \in {<<"", "">>, <<"https://repo", "key">>} :
    Finish(SetRegistryCreds(tr, creds[1], creds[2]), heap,
           Ret("SetRegistryCreds", "", NoError, ZeroToolRef, ZeroToolSet, ZeroTool))

LoadToolsCall ==
  \E resp \in Responses :
    LET a == AllocAll(<< >>, resp.catalog.tools, DOMAIN resp.catalog.tools)
        res == LoadTools(tr, [kind |-> resp.kind, nilMap |-> resp.catalog.nilMap,
                              tools |-> a.tools])
    IN  Finish(res.tr, IF res.err = NoError THEN a.heap ELSE heap,
               [Ret("LoadTools", "", res.err, ZeroToolRef, ZeroToolSet, ZeroTool)
                  EXCEPT !.resp = resp, !.before = DOMAIN tr.tools])

\* registry.tools[name] = a copy of the entry with another Description
TamperDescription ==
  \E name \in DOMAIN tr.tools \cap {"alpha"}, d \in Descriptions :
    /\ d # tr.tools[name].Description
    /\ Finish([tr EXCEPT !.tools[name].Description = d], heap,
              Ret("Tamper", name, NoError, ZeroToolRef, ZeroToolSet, ZeroTool))

\* registry.tools[name] = a copy of the entry with another InputSchema
TamperInputSchema ==
  \E name \in DOMAIN tr.tools \cap {"alpha"}, s \in {SchemaA, SchemaB, RawBad} :
    /\ s # Deref(heap, tr.tools[name]).InputSchema
    /\ LET rt == Ret("Tamper", name, NoError, ZeroToolRef, ZeroToolSet, ZeroTool)
           h0 == Collect(heap, [tr EXCEPT !.tools[name].InputSchema = NilRef], rt)
           a == AllocField(h0, s, RawNil)
       IN  Finish([tr EXCEPT !.tools[name].InputSchema = a.ref], a.heap, rt)

\* registry.tools[tool.Name] = tool, with no stamp computed
InsertUnsigned ==
  \E name \in {"alpha"} :
    /\ ~tr.nilMap
    /\ LET rt == Ret("Insert", name, NoError, ZeroToolRef, ZeroToolSet, ZeroTool)
           r0 == [tr EXCEPT !.tools = [k \in DOMAIN @ \ {name} |-> @[k]]]
           a == Alloc(Collect(heap, r0, rt), MkTool(name, "A test tool", SchemaA))
       IN  Finish([r0 EXCEPT !.tools = @ @@ (name :> a.tool)], a.heap, rt)

\* the caller of GetTool or ListTools overwrites bytes of the InputSchema
\* of a Tool it was handed
WriteReturned ==
  \E a \in Refs(ret.tool) \cup UNION {Refs(ret.set.Tools[i]) : i \in DOMAIN ret.set.Tools},
     s \in {SchemaA, SchemaB} :
    /\ ret.op \in {"GetTool", "ListTools", "WriteReturned"}
    /\ s # heap[a]
    /\ Finish(tr, [heap EXCEPT ![a] = s], [ret EXCEPT !.op = "WriteReturned"])

Next ==
  \/ RegisterToolCall
  \/ GetToolCall
  \/ ListToolsCall
  \/ SetSecurityOptionsCall
  \/ SetRegistryCredsCall
  \/ LoadToolsCall
  \/ TamperDescription
  \/ TamperInputSchema
  \/ InsertUnsigned
  \/ WriteReturned

Spec == Init /\ [][Next]_vars

(***************************************************************************)
(* Properties of the registry                                              *)
(***************************************************************************)
Checking == tr.securityEnabled /\ tr.validateChecksums

Present(name) == name \in DOMAIN tr.tools

StoredTool(name) == Stored(tr, heap)[name]

\* the stored stamps are the ones recomputed from the stored fields
ChecksumMatches(name) ==
  LET c == generateToolChecksum(StoredTool(name))
  IN  ~c.err /\ c.out = StoredTool(name).SecurityMetadata.Checksum

FingerprintMatches(name) ==
  LET f == generateSchemaFingerprint(StoredTool(name).InputSchema)
  IN  ~f.err /\ f.out = StoredTool(name).SecurityMetadata.Signature

Unsigned(name) ==
  \/ StoredTool(name).SecurityMetadata.Checksum = NoStamp
  \/ StoredTool(name).SecurityMetadata.Signature = NoStamp

Verified(name) == Present(name) /\ ChecksumMatches(name) /\ FingerprintMatches(name)

\* C1: with securityEnabled and validateChecksums, GetTool(name) returns a
\* tool only if the stored checksum and the stored signature equal the values
\* recomputed from the stored name, description and inputSchema; in every
\* other case it returns an error and the zero Tool.
C1_GetToolFailClosed ==
  (ret.op = "GetTool" /\ Checking) =>
    /\ ret.err = NoError => Verified(ret.name) /\ ret.tool = tr.tools[ret.name]
    /\ ~Verified(ret.name) => ret.err # NoError
    /\ ret.err # NoError => ret.tool = ZeroToolRef

\* a read of an entry whose schema was changed behind the registry's back
C1_Witness ==
  /\ ret.op = "GetTool" /\ Checking /\ Present(ret.name)
  /\ ~ChecksumMatches(ret.name)
  /\ StoredTool(ret.name).SecurityMetadata.Checksum # NoStamp
  /\ ret.err = "tool checksum validation failed"

UnstampedArg ==
  /\ ret.arg.SecurityMetadata.Checksum = NoStamp
  /\ ret.arg.SecurityMetadata.Signature = NoStamp

\* C2: with securityEnabled, RegisterTool of an unstamped tool with a
\* well-formed inputSchema under a name not yet in the registry stores it with
\* both stamps non-empty, and the next GetTool on that name succeeds and
\* returns a tool carrying those stamps, whatever the two options are.
C2_ReadAfterWrite ==
  /\ []((ret.op = "RegisterTool" /\ tr.securityEnabled /\ UnstampedArg
          /\ WellFormed(ret.arg.InputSchema) /\ ret.fresh)
        => /\ ret.err = NoError
           /\ Present(ret.name)
           /\ ~Unsigned(ret.name))
  /\ [][(ret.op = "RegisterTool" /\ tr.securityEnabled /\ UnstampedArg
          /\ WellFormed(ret.arg.InputSchema) /\ ret.fresh
          /\ ret'.op = "GetTool" /\ ret'.name = ret.name)
        => /\ ret'.err = NoError
           /\ ret'.tool.SecurityMetadata.Checksum # NoStamp
           /\ ret'.tool.SecurityMetadata.Signature # NoStamp]_vars

\* C3: RegisterTool on a name that is already present overwrites the entry:
\* after a RegisterTool that returned nil the registry holds the definition
\* that call was given.
C3_LastWriterWins ==
  (ret.op = "RegisterTool" /\ ret.err = NoError) =>
    /\ Present(ret.name)
    /\ StoredTool(ret.name).Description = ret.arg.Description
    /\ StoredTool(ret.name).InputSchema = ret.arg.InputSchema

\* C4: with securityEnabled and rejectUnsignedTools, GetTool on a stored tool
\* whose checksum or signature is empty returns an error and no tool, with
\* validateChecksums true as well as false.
C4_UnsignedRejected ==
  (ret.op = "GetTool" /\ tr.securityEnabled /\ tr.rejectUnsignedTools
   /\ Present(ret.name) /\ Unsigned(ret.name))
  => ret.err # NoError /\ ret.tool = ZeroToolRef

C4_Witness ==
  /\ ret.op = "GetTool" /\ tr.securityEnabled /\ tr.rejectUnsignedTools
  /\ ~tr.validateChecksums
  /\ Present(ret.name) /\ Unsigned(ret.name)
  /\ ret.err = "unsigned tool rejected"

\* C8: GetTool never changes the registry: the map, the stored stamps and
\* contents and the three flags are the same after the call as before it,
\* whatever the outcome.
C8_GetToolReadOnly ==
  [][ret'.op = "GetTool" => tr' = tr /\ Stored(tr, heap)' = Stored(tr, heap)]_vars

\* a read that failed on a stale stamp
C8_Witness ==
  /\ ret.op = "GetTool" /\ ret.err = "tool checksum validation failed"
  /\ Present(ret.name) /\ ~ChecksumMatches(ret.name)

NonDecreasing(tools) ==
  \A i, j \in DOMAIN tools : i < j => ~NameLess(tools[j].Name, tools[i].Name)

\* C9: ListTools returns every stored entry exactly once, in ascending order
\* of name, with no per-tool verification, together with securityEnabled and
\* "SHA-256" for both algorithms.
C9_ListToolsComplete ==
  ret.op = "ListTools" =>
    /\ \E p \in Perms(DOMAIN tr.tools) :
         ret.set.Tools = [i \in DOMAIN p |-> tr.tools[p[i]]]
    /\ NonDecreasing(ret.set.Tools)
    /\ ret.set.SecurityEnabled = tr.securityEnabled
    /\ ret.set.SchemaFingerprintAlgo = "SHA-256"
    /\ ret.set.ChecksumAlgo = "SHA-256"

\* a listing of two differently named entries, one of which GetTool rejects
C9_Witness ==
  /\ ret.op = "ListTools" /\ Len(ret.set.Tools) = 2
  /\ ret.set.Tools[1].Name # ret.set.Tools[2].Name
  /\ Checking
  /\ \E k \in DOMAIN tr.tools : GetTool(tr, heap, k).err # NoError

\* C10: what GetTool and ListTools hand out shares no mutable state with the
\* registry: a caller that modifies a returned Tool, the bytes of its
\* inputSchema included, does not change the stored entry.
C10_ReturnedCopiesIsolated ==
  [][ret'.op = "WriteReturned" => Stored(tr, heap)' = Stored(tr, heap)]_vars

\* C12: LoadTools is all-or-nothing: with credentials missing, a failed
\* request, a status other than 200 or a body that does not decode it returns
\* an error and leaves the map as it was; when it succeeds the map is exactly
\* the decoded catalogue, and no other entry of the previous map survives.
C12_LoadToolsAllOrNothing ==
  [][ret'.op = "LoadTools" =>
       LET failing == \/ tr.apiKey = "" \/ tr.toolRepo = ""
                      \/ ret'.resp.kind # "ok"
       IN  /\ failing <=> ret'.err # NoError
           /\ failing => /\ tr' = tr
                          /\ Stored(tr, heap)' = Stored(tr, heap)
           /\ ~failing => /\ Stored(tr, heap)' = ret'.resp.catalog.tools
                           /\ tr'.nilMap = ret'.resp.catalog.nilMap]_vars

\* a successful load that dropped an entry the catalogue does not have
C12_Witness ==
  /\ ret.op = "LoadTools" /\ ret.err = NoError
  /\ ret.before \ DOMAIN ret.resp.catalog.tools # {}
  /\ DOMAIN tr.tools = DOMAIN ret.resp.catalog.tools

\* C23: in GetTool the checksum and fingerprint comparison comes before the
\* unsigned-tool rejection: with securityEnabled, validateChecksums and
\* rejectUnsignedTools, a stored tool with an empty checksum or signature is
\* rejected with the error of the checksum or of the fingerprint validation
\* (the comparison error when the hash of the stored fields can be computed),
\* never with the unsigned-tool error; and with rejectUnsignedTools false
\* and validateChecksums true a tampered tool is still rejected.
C23_ChecksBeforeUnsigned ==
  (ret.op = "GetTool" /\ Checking /\ Present(ret.name)) =>
    /\ (tr.rejectUnsignedTools /\ Unsigned(ret.name)) =>
         /\ ret.err \in {"failed to generate expected checksum",
                         "tool checksum validation failed",
                         "failed to generate expected signature",
                         "schema fingerprint validation failed"}
         /\ (StoredTool(ret.name).SecurityMetadata.Checksum = NoStamp
             /\ ~generateToolChecksum(StoredTool(ret.name)).err)
            => ret.err = "tool checksum validation failed"
         /\ (ChecksumMatches(ret.name)
             /\ ~generateSchemaFingerprint(StoredTool(ret.name).InputSchema).err)
            => ret.err = "schema fingerprint validation failed"
    /\ (~tr.rejectUnsignedTools /\ ~Verified(ret.name)) =>
         ret.err \notin {NoError, "unsigned tool rejected"}

\* all three options on, an entry without stamps, the checksum error
C23_Witness ==
  /\ ret.op = "GetTool" /\ Checking /\ tr.rejectUnsignedTools
  /\ Present(ret.name)
  /\ StoredTool(ret.name).SecurityMetadata.Checksum = NoStamp
  /\ StoredTool(ret.name).SecurityMetadata.Signature = NoStamp
  /\ ret.err = "tool checksum validation failed"

\* C29: in every reachable registry state the tool map is initialized and
\* keyed by tool name: every key k maps to a Tool whose name is k, after any
\* sequence of RegisterTool and of successful or failed LoadTools calls.
C29_MapKeyedByName ==
  /\ ~tr.nilMap
  /\ \A k \in DOMAIN tr.tools : tr.tools[k].Name = k

(***************************************************************************)
(* canonicalizeJson as a function: two documents are drawn, both are       *)
(* canonicalized.                                                          *)
(***************************************************************************)
DocKeys == {"a", "b", "p"}

InnerAB == JObj(<< Member("a", JNum(1)), Member("b", JNum(2)) >>, FALSE)
InnerBA == JObj(<< Member("b", JNum(2)), Member("a", JNum(1)) >>, TRUE)

DocValues == {JNum(1), InnerAB, InnerBA}

\* objects of at most MaxMembers members with distinct keys, in every member
\* order, with and without whitespace; plus bytes that are no document
Docs ==
  {JObj(m, ws) :
     m \in {q \in UNION {[1..n -> {Member(k, v) : k \in DocKeys, v \in DocValues}] :
                           n \in 0..MaxMembers} :
              \A i, j \in DOMAIN q : q[i].k = q[j].k => i = j},
     ws \in BOOLEAN}
  \cup {RawBad, RawNil}

\* same keys and values, whatever the member order and the whitespace
RECURSIVE StructEq(_, _)
StructEq(x, y) ==
  IF x.t = "obj" /\ y.t = "obj"
  THEN /\ {x.m[i].k : i \in DOMAIN x.m} = {y.m[j].k : j \in DOMAIN y.m}
       /\ Len(x.m) = Len(y.m)
       /\ \A i \in DOMAIN x.m, j \in DOMAIN y.m :
            x.m[i].k = y.m[j].k => StructEq(x.m[i].v, y.m[j].v)
  ELSE x.t = y.t /\ x.n = y.n /\ x.s = y.s

NoResult == Fail(RawNil)

Pure(stage, x, y, rx, ry, vx) ==
  [stage |-> stage, x |-> x, y |-> y, rx |-> rx, ry |-> ry, vx |-> vx]

Idle ==
  /\ tr = NewToolRegistry(TRUE)
  /\ heap = << >>
  /\ ret = Ret("NewToolRegistry", "", NoError, ZeroToolRef, ZeroToolSet, ZeroTool)
  /\ procs = NoProcs

InitCanon ==
  /\ Idle
  /\ \E x, y \in Docs : pure = Pure("docs", x, y, NoResult, NoResult, NoResult)

Canonicalize ==
  /\ pure.stage = "docs"
  /\ pure' = [pure EXCEPT !.stage = "canonical",
                          !.rx = canonicalizeJson(pure.x),
                          !.ry = canonicalizeJson(pure.y)]
  /\ UNCHANGED <<tr, heap, ret, procs>>

NextCanon == Canonicalize

SpecCanon == InitCanon /\ [][NextCanon]_vars

\* C7: canonicalizeJson maps two well-formed documents that are structurally
\* equal (same keys and values, differing in key order or whitespace) to the
\* same bytes, and returns an error and no bytes for malformed JSON.
C7_CanonicalForm ==
  pure.stage = "canonical" =>
    /\ (WellFormed(pure.x) /\ WellFormed(pure.y) /\ StructEq(pure.x, pure.y))
       => ~pure.rx.err /\ ~pure.ry.err /\ pure.rx.out = pure.ry.out
    /\ ~WellFormed(pure.x) => pure.rx.err /\ pure.rx.out = RawNil

\* two documents with the members in different orders
C7_Witness ==
  /\ pure.stage = "canonical"
  /\ Len(pure.x.m) = 2 /\ Len(pure.y.m) = 2
  /\ pure.x.m[1].k = pure.y.m[2].k /\ pure.x.m[1].k # pure.y.m[1].k
  /\ pure.x.ws # pure.y.ws
  /\ StructEq(pure.x, pure.y)
  /\ pure.rx.out = pure.ry.out

(***************************************************************************)
(* The two checksums as functions: two tools are drawn, the registry's     *)
(* checksum of both and the handler's checksum of the first are computed.  *)
(***************************************************************************)
SchemaAB == JObj(<< Member("a", JNum(1)), Member("b", JNum(2)) >>, FALSE)
SchemaBA == JObj(<< Member("b", JNum(2)), Member("a", JNum(1)) >>, TRUE)

DefaultAnnotations ==
  [ZeroAnnotations EXCEPT !.DestructiveHint = TRUE, !.OpenWorldHint = TRUE]

\* the fields outside name, description and inputSchema: all zero, or one set
Variants(tool) ==
  { tool,
    [tool EXCEPT !.OutputSchema = SchemaB],
    [tool EXCEPT !.Annotations = DefaultAnnotations],
    [tool EXCEPT !.Arguments = SchemaA],
    [tool EXCEPT !.Parameters = Unmarshal(JObj(<< Member("p", JNum(1)) >>, FALSE))],
    [tool EXCEPT !.SecurityMetadata = BogusSignature] }

ChecksumTools ==
  UNION {Variants(MkTool(n, d, s)) :
           n \in Names, d \in Descriptions,
           s \in {SchemaAB, SchemaBA, SchemaB, RawBad, RawNil}}

InitChecksum ==
  /\ Idle
  /\ \E x, y \in ChecksumTools : pure = Pure("tools", x, y, NoResult, NoResult, NoResult)

Checksum ==
  /\ pure.stage = "tools"
  /\ pure' = [pure EXCEPT !.stage = "checksums",
                          !.rx = generateToolChecksum(pure.x),
                          !.ry = generateToolChecksum(pure.y),
                          !.vx = GenerateToolChecksum(pure.x)]
  /\ UNCHANGED <<tr, heap, ret, procs>>

NextChecksum == Checksum

SpecChecksum == InitChecksum /\ [][NextChecksum]_vars

\* the inputSchema of the two tools has the same structure (nil is none)
SameSchemaStructure(s1, s2) ==
  IF WellFormed(s1) /\ WellFormed(s2) THEN StructEq(s1, s2) ELSE s1 = s2

C6_SameChecksum ==
  pure.stage = "checksums" => pure.vx = pure.rx

(***************************************************************************)
(* The registry under concurrent callers.  net/http runs every request in  *)
(* a goroutine of its own and all handlers share one ToolManager, so calls *)
(* of RegisterTool, GetTool, ListTools and LoadTools interleave.  An       *)
(* access to tr.tools takes time: it starts in one step and completes, with*)
(* its effect, in a later one.  acc is the access a caller is in the middle*)
(* of: "read" (map lookup or range), "write" (map assignment), "store"     *)
(* (assignment of another map to tr.tools) or "none".  ToolRegistry has no *)
(* lock, so no step waits for another caller.                              *)
(***************************************************************************)
Callers == {"c1", "c2"}

IdleCaller ==
  [pc |-> "idle", op |-> "", acc |-> "none", raced |-> FALSE, tool |-> ZeroTool,
   name |-> "", resp |-> NoResponse, err |-> NoError]

\* tools the callers register, names they read, answers of the repository
HandlerTools ==
  {MkTool("alpha", "A test tool", SchemaA), MkTool("beta", "A test tool", SchemaA),
   MkTool("alpha", "A test tool", RawBad)}

HandlerResponses ==
  {[kind |-> "status", catalog |-> Catalog(TRUE, NoTools)],
   [kind |-> "ok", catalog |-> Catalog(FALSE,
      "alpha" :> SecureTool(MkTool("alpha", "A test tool", SchemaB)).out)]}

\* two accesses that the Go memory model calls a data race
Conflict(a, b) == a # "none" /\ b # "none" /\ (a # "read" \/ b # "read")

\* a map assignment concurrent with another map access is what the runtime
\* may detect ("fatal error: concurrent map writes")
MapRace(a, b) == Conflict(a, b) /\ (a = "write" \/ b = "write")

\* caller p goes on as rec, starting the access rec.acc
Enter(p, rec) ==
  LET others == {q \in Callers \ {p} : MapRace(rec.acc, procs.c[q].acc)}
  IN  [procs EXCEPT !.c = [q \in Callers |->
         IF q = p THEN [rec EXCEPT !.raced = others # {}]
         ELSE IF q \in others THEN [procs.c[q] EXCEPT !.raced = TRUE]
         ELSE procs.c[q]]]

\* caller p returns err
Return(p, err) ==
  [procs EXCEPT !.c[p] = [IdleCaller EXCEPT !.op = procs.c[p].op, !.err = err]]

InitHandlers ==
  /\ \E creds \in {<<"", "">>, <<"https://repo", "key">>} :
       tr = SetRegistryCreds(NewToolRegistry(TRUE), creds[1], creds[2])
  /\ heap = << >>
  /\ ret = Ret("NewToolRegistry", "", NoError, ZeroToolRef, ZeroToolSet, ZeroTool)
  /\ pure = PureOff
  /\ procs = [fatal |-> FALSE, c |-> [p \in Callers |-> IdleCaller]]

Running(p, pc) == ~procs.fatal /\ procs.c[p].pc = pc

\* the runtime found the map being written while caller p was using it
Throw(p) ==
  /\ procs.c[p].raced
  /\ procs' = [procs EXCEPT !.fatal = TRUE]
  /\ UNCHANGED <<tr, heap, ret, pure>>

\* RegisterTool up to the lookup tr.tools[tool.Name]
RegisterToolBegin(p) ==
  /\ Running(p, "idle")
  /\ \E tv \in HandlerTools :
       LET a == Alloc(heap, tv)
           st == Stamp(tr, a.heap, a.tool)
           rec == [IdleCaller EXCEPT !.op = "RegisterTool", !.tool = tv]
       IN  procs' = IF st.err # NoError
                    THEN [procs EXCEPT !.c[p] = [rec EXCEPT !.err = st.err]]
                    ELSE Enter(p, [rec EXCEPT !.pc = "lookup", !.acc = "read"])
  /\ UNCHANGED <<tr, heap, ret, pure>>

\* the lookup completes: return nil when the name is there, else start the
\* assignment tr.tools[tool.Name] = tool
RegisterToolLookup(p) ==
  /\ Running(p, "lookup")
  /\ \/ /\ procs' = IF procs.c[p].tool.Name \in DOMAIN tr.tools
                    THEN Return(p, NoError)
                    ELSE Enter(p, [procs.c[p] EXCEPT !.pc = "assign", !.acc = "write",
                                                     !.raced = FALSE])
        /\ UNCHANGED <<tr, heap, ret, pure>>
     \/ Throw(p)

\* the assignment completes
RegisterToolAssign(p) ==
  /\ Running(p, "assign")
  /\ \/ LET name == procs.c[p].tool.Name
            r0 == [tr EXCEPT !.tools = [k \in DOMAIN @ \ {name} |-> @[k]]]
            a == Alloc(Collect(heap, r0, ret), procs.c[p].tool)
            res == RegisterTool(r0, a.heap, a.tool)
        IN  /\ tr' = res.tr
            /\ heap' = Collect(a.heap, res.tr, ret)
            /\ procs' = Return(p, res.err)
            /\ UNCHANGED <<ret, pure>>
     \/ Throw(p)

\* GetTool up to the lookup tr.tools[name]
GetToolBegin(p) ==
  /\ Running(p, "idle")
  /\ \E name \in Names :
       procs' = Enter(p, [IdleCaller EXCEPT !.op = "GetTool", !.pc = "get",
                                             !.acc = "read", !.name = name])
  /\ UNCHANGED <<tr, heap, ret, pure>>

\* the lookup completes and the checks run on the copy
GetToolEnd(p) ==
  /\ Running(p, "get")
  /\ \/ /\ procs' = Return(p, GetTool(tr, heap, procs.c[p].name).err)
        /\ UNCHANGED <<tr, heap, ret, pure>>
     \/ Throw(p)

\* ListTools up to the range over tr.tools
ListToolsBegin(p) ==
  /\ Running(p, "idle")
  /\ procs' = Enter(p, [IdleCaller EXCEPT !.op = "ListTools", !.pc = "range",
                                          !.acc = "read"])
  /\ UNCHANGED <<tr, heap, ret, pure>>

\* the range completes
ListToolsEnd(p) ==
  /\ Running(p, "range")
  /\ \/ /\ procs' = Return(p, NoError)
        /\ UNCHANGED <<tr, heap, ret, pure>>
     \/ Throw(p)

\* LoadTools up to the assignment tr.tools = tools
LoadToolsBegin(p) ==
  /\ Running(p, "idle")
  /\ \E resp \in HandlerResponses :
       LET res == LoadTools(tr, [kind |-> resp.kind, nilMap |-> resp.catalog.nilMap,
                                 tools |-> NoTools])
           rec == [IdleCaller EXCEPT !.op = "LoadTools", !.resp = resp]
       IN  procs' = IF res.err # NoError
                    THEN [procs EXCEPT !.c[p] = [rec EXCEPT !.err = res.err]]
                    ELSE Enter(p, [rec EXCEPT !.pc = "store", !.acc = "store"])
  /\ UNCHANGED <<tr, heap, ret, pure>>

\* the assignment completes
LoadToolsStore(p) ==
  /\ Running(p, "store")
  /\ LET resp == procs.c[p].resp
         a == AllocAll(<< >>, resp.catalog.tools, DOMAIN resp.catalog.tools)
         res == LoadTools(tr, [kind |-> resp.kind, nilMap |-> resp.catalog.nilMap,
                               tools |-> a.tools])
     IN  /\ tr' = res.tr
         /\ heap' = Collect(a.heap, res.tr, ret)
         /\ procs' = Return(p, res.err)
         /\ UNCHANGED <<ret, pure>>

NextHandlers ==
  \E p \in Callers :
    \/ RegisterToolBegin(p)
    \/ RegisterToolLookup(p)
    \/ RegisterToolAssign(p)
    \/ GetToolBegin(p)
    \/ GetToolEnd(p)
    \/ ListToolsBegin(p)
    \/ ListToolsEnd(p)
    \/ LoadToolsBegin(p)
    \/ LoadToolsStore(p)

SpecHandlers == InitHandlers /\ [][NextHandlers]_vars

\* C11: accesses to the registry's tool map are mutually excluded: no map
\* write by RegisterTool or LoadTools is in progress together with another
\* such write or with a read by GetTool or ListTools; only reads overlap.
C11_MapAccessExcluded ==
  \A p, q \in Callers :
    p # q => ~Conflict(procs.c[p].acc, procs.c[q].acc)

(***************************************************************************)
(* Schema validation (package validate).  gojsonschema is the engine:      *)
(* NewSchema fails when the schema bytes are no JSON document, when the    *)
(* document is no object, or when a keyword has a value the draft does not *)
(* allow; Validate fails when the document bytes are no JSON document.     *)
(* The keywords in use here are "type" and "properties".                   *)
(***************************************************************************)
StatusSucceeded == "succeeded"
StatusFailed == "failed"
StatusError == "error"

\* []byte{} and "": no bytes, but not nil
RawEmpty == Node("empty", 0, <<>>, <<>>, FALSE)

\* len(bytes) = 0
NoBytes(d) == d.t \in {"nil", "empty"}

TypeNames == {"array", "boolean", "integer", "number", "null", "object", "string"}

\* the JSON type of a decoded value (every number of the model is integral)
TypesOf(v) ==
  CASE v.t = "map" -> {"object"}
    [] v.t = "num" -> {"integer", "number"}
    [] v.t = "str" -> {"string"}
    [] v.t = "bool" -> {"boolean"}
    [] OTHER -> {"null"}

\* parseSchema on a decoded document
RECURSIVE ParseSchemaOk(_)
ParseSchemaOk(v) ==
  /\ v.t = "map"
  /\ "type" \in DOMAIN v.f =>
       /\ v.f["type"].t = "str"
       /\ \E n \in TypeNames : v.f["type"].s = <<n>>
  /\ "properties" \in DOMAIN v.f =>
       /\ v.f["properties"].t = "map"
       /\ \A k \in DOMAIN v.f["properties"].f : ParseSchemaOk(v.f["properties"].f[k])

\* gojsonschema.NewSchema(NewBytesLoader(bytes)) returns no error
NewSchemaOk(bytes) == WellFormed(bytes) /\ ParseSchemaOk(Unmarshal(bytes))

\* result.Valid() for a parsed schema and a decoded document
RECURSIVE Valid(_, _)
Valid(schema, doc) ==
  /\ "type" \in DOMAIN schema.f =>
       \E n \in TypesOf(doc) : schema.f["type"].s = <<n>>
  /\ ("properties" \in DOMAIN schema.f /\ doc.t = "map") =>
       \A k \in DOMAIN schema.f["properties"].f \cap DOMAIN doc.f :
         Valid(schema.f["properties"].f[k], doc.f[k])

Status(status, err) == [status |-> status, err |-> err]

\* an engine that loads the document before it compiles the schema
Engine_documentFirst(schemaBytes, documentBytes, what) ==
  IF ~WellFormed(documentBytes)
  THEN Status(StatusError, <<"internal", what, "validation error">>)
  ELSE IF ~NewSchemaOk(schemaBytes)
  THEN Status(StatusError, <<"internal", what, "schema error">>)
  ELSE IF ~Valid(Unmarshal(schemaBytes), Unmarshal(documentBytes))
  THEN Status(StatusFailed, <<what, "validation failed">>)
  ELSE Status(StatusSucceeded, NoError)

\* an engine that reports a violated schema without an error value
Engine_failedNil(schemaBytes, documentBytes, what) ==
  IF ~NewSchemaOk(schemaBytes)
  THEN Status(StatusError, <<"internal", what, "schema error">>)
  ELSE IF ~WellFormed(documentBytes)
  THEN Status(StatusError, <<"internal", what, "validation error">>)
  ELSE IF ~Valid(Unmarshal(schemaBytes), Unmarshal(documentBytes))
  THEN Status(StatusFailed, NoError)
  ELSE Status(StatusSucceeded, NoError)

\* NewSchema, schema.Validate and result.Valid() in the order of the code
Engine(schemaBytes, documentBytes, what) ==
  IF ~NewSchemaOk(schemaBytes)
  THEN Status(StatusError, <<"internal", what, "schema error">>)
  ELSE IF ~WellFormed(documentBytes)
  THEN Status(StatusError, <<"internal", what, "validation error">>)
  ELSE IF ~Valid(Unmarshal(schemaBytes), Unmarshal(documentBytes))
  THEN Status(StatusFailed, <<what, "validation failed">>)
  ELSE Status(StatusSucceeded, NoError)

\* treats a tool without input schema like one without output schema
ValidateToolInputSchema_lenient(tool, inputArguments) ==
  IF ~NoBytes(tool.InputSchema)
  THEN Engine(tool.InputSchema, inputArguments, "input")
  ELSE Status(StatusSucceeded, NoError)

ValidateToolInputSchema(tool, inputArguments) ==
  IF ~NoBytes(tool.InputSchema)
  THEN Engine(tool.InputSchema, inputArguments, "input")
  ELSE Status(StatusFailed, <<"no InputSchema defined">>)

ValidateToolOutput(rawResult, tool) ==
  IF ~NoBytes(tool.OutputSchema)
  THEN Engine(tool.OutputSchema, rawResult, "output")
  ELSE Status(StatusSucceeded, NoError)

\* schemas: none, unloadable ones and loadable ones
TypeIs(n) == Member("type", JText(n))

SchemaObject == JObj(<< TypeIs("object") >>, FALSE)

SchemaNumberA ==
  JObj(<< TypeIs("object"),
          Member("properties", JObj(<< Member("a", JObj(<< TypeIs("number") >>, FALSE)) >>,
                                    FALSE)) >>, TRUE)

ToolSchemas ==
  { RawNil, RawEmpty, RawBad, JNum(1),
    JObj(<< TypeIs("invalid-type") >>, FALSE),
    JObj(<< Member("type", JNum(1)) >>, FALSE),
    JObj(<< Member("properties", JNum(1)) >>, FALSE),
    SchemaA, SchemaObject, SchemaNumberA }

\* argument payloads and tool results: none, no JSON, and documents
Payloads ==
  { RawNil, RawEmpty, RawBad, JNull, JNum(1), JObj(<< >>, FALSE), SchemaA,
    JObj(<< Member("a", JText("x")) >>, FALSE),
    JObj(<< Member("a", JText("x")), Member("a", JNum(1)) >>, TRUE) }

\* a result string is never nil
Results == Payloads \ {RawNil}

InitValidate ==
  /\ Idle
  /\ \E i, o \in ToolSchemas, a \in Payloads, r \in Results :
       pure = [stage |-> "call",
               tool |-> [MkTool("alpha", "A test tool", i) EXCEPT !.OutputSchema = o],
               inputArguments |-> a, rawResult |-> r,
               input |-> Status("", NoError), output |-> Status("", NoError)]

Validate ==
  /\ pure.stage = "call"
  /\ pure' = [pure EXCEPT
       !.stage = "validated",
       !.input = ValidateToolInputSchema(pure.tool, pure.inputArguments),
       !.output = ValidateToolOutput(pure.rawResult, pure.tool)]
  /\ UNCHANGED <<tr, heap, ret, procs>>

NextValidate == Validate

SpecValidate == InitValidate /\ [][NextValidate]_vars

\* C13: schema absence is asymmetric: ValidateToolInputSchema on a tool with
\* an empty or nil input schema returns Failed with a non-nil error for every
\* argument payload, and ValidateToolOutput on a tool with an empty or nil
\* output schema returns Succeeded with a nil error for every result string.
C13_SchemaAbsence ==
  pure.stage = "validated" =>
    /\ NoBytes(pure.tool.InputSchema) =>
         pure.input.status = StatusFailed /\ pure.input.err # NoError
    /\ NoBytes(pure.tool.OutputSchema) =>
         pure.output.status = StatusSucceeded /\ pure.output.err = NoError

\* a tool with neither schema, nil arguments and a result that is no JSON
C13_Witness ==
  /\ pure.stage = "validated"
  /\ pure.tool.InputSchema = RawEmpty /\ pure.tool.OutputSchema = RawNil
  /\ pure.inputArguments = RawNil /\ pure.rawResult = RawBad
  /\ pure.input.status = StatusFailed /\ pure.output.status = StatusSucceeded

\* the schema bytes are a schema gojsonschema compiles
Loadable(bytes) ==
  /\ bytes.t = "obj" /\ WellFormed(bytes)
  /\ bytes \notin {JObj(<< TypeIs("invalid-type") >>, FALSE),
                   JObj(<< Member("type", JNum(1)) >>, FALSE),
                   JObj(<< Member("properties", JNum(1)) >>, FALSE)}

\* the arguments violate the schema: they are no object, or "a" is no number
Violates(schemaBytes, v) ==
  \/ schemaBytes \in {SchemaObject, SchemaNumberA} /\ v.t # "map"
  \/ schemaBytes = SchemaNumberA /\ v.t = "map" /\ "a" \in DOMAIN v.f /\ v.f["a"].t # "num"

\* C14: with a non-empty input schema the status of ValidateToolInputSchema is
\* Error "internal schema error" if the schema cannot be loaded, whatever the
\* arguments; else Error "internal validation error" if the arguments are no
\* JSON document; else Failed if the document violates the schema; else
\* Succeeded with a nil error.  Failed and Error are never confused.
C14_StatusOrder ==
  (pure.stage = "validated" /\ ~NoBytes(pure.tool.InputSchema)) =>
    LET schema == pure.tool.InputSchema
        args == pure.inputArguments
        res == pure.input
    IN  /\ ~Loadable(schema) =>
             res = Status(StatusError, <<"internal", "input", "schema error">>)
        /\ (Loadable(schema) /\ ~WellFormed(args)) =>
             res = Status(StatusError, <<"internal", "input", "validation error">>)
        /\ (Loadable(schema) /\ WellFormed(args) /\ Violates(schema, Unmarshal(args))) =>
             res.status = StatusFailed /\ res.err # NoError
        /\ (Loadable(schema) /\ WellFormed(args) /\ ~Violates(schema, Unmarshal(args))) =>
             res = Status(StatusSucceeded, NoError)
        /\ res.status = StatusError <=> (~Loadable(schema) \/ ~WellFormed(args))

\* a schema that does not compile, called with arguments that are no JSON
C14_Witness ==
  /\ pure.stage = "validated"
  /\ pure.tool.InputSchema = JObj(<< TypeIs("invalid-type") >>, FALSE)
  /\ pure.inputArguments = RawBad
  /\ pure.input.status = StatusError
  /\ pure.input.err = <<"internal", "input", "schema error">>

\* the tests of a caller that looks at the error first and at the status
\* next, and marks the tool valid when both pass
MarksValid(res) == res.err = NoError /\ res.status # StatusFailed

\* C28: for ValidateToolInputSchema and for ValidateToolOutput the error is
\* nil exactly when the status is Succeeded (Failed and Error always come
\* with an error), so a caller that tests the error first never marks a tool
\* valid on a Failed or Error status.
C28_StatusErrorConsistent ==
  pure.stage = "validated" =>
    /\ (pure.input.err = NoError) <=> (pure.input.status = StatusSucceeded)
    /\ (pure.output.err = NoError) <=> (pure.output.status = StatusSucceeded)
    /\ pure.input.status \in {StatusSucceeded, StatusFailed, StatusError}
    /\ pure.output.status \in {StatusSucceeded, StatusFailed, StatusError}
    /\ MarksValid(pure.input) => pure.input.status = StatusSucceeded
    /\ MarksValid(pure.output) => pure.output.status = StatusSucceeded

\* arguments that violate the input schema and a result checked against an
\* output schema that does not compile
C28_Witness ==
  /\ pure.stage = "validated"
  /\ pure.input.status = StatusFailed /\ pure.input.err # NoError
  /\ ~NoBytes(pure.tool.InputSchema)
  /\ pure.output.status = StatusError /\ pure.output.err # NoError

(***************************************************************************)
(* DetectHiddenUnicode (package validate, text.go).  A string is the       *)
(* sequence of what its bytes hold: code points in their UTF-8 encoding    *)
(* and bytes that are no valid encoding (negative numbers).  range decodes *)
(* an invalid byte as U+FFFD of width 1.                                   *)
(***************************************************************************)
MaxRunes == 3     \* elements of a generated string

TagChar == "Unicode Tag (U+E0000-U+E007F)"
BidiControl == "Bidirectional Control"
DeprecatedChar == "Deprecated/Non-Character"
InvisibleFmt == "Invisible Formatting"

RECURSIVE BitAnd(_, _)
BitAnd(a, b) ==
  IF a = 0 \/ b = 0 THEN 0
  ELSE (a % 2) * (b % 2) + 2 * BitAnd(a \div 2, b \div 2)

isTag(r) == r >= \hE0000 /\ r <= \hE007F

isBidiControl(r) ==
  \/ r >= \h202A /\ r <= \h202E
  \/ r >= \h2066 /\ r <= \h2069
  \/ r = \h061C

isInvisibleFormatting(r) == r \in {\h200B, \h200C, \h200D, \h2060, \hFEFF}

isDeprecated(r) ==
  \/ r >= \hFDD0 /\ r <= \hFDEF
  \/ BitAnd(r, \hFFFE) = \hFFFE
  \/ BitAnd(r, \hFFFF) = \hFFFF

\* the rune range yields for an element of the string
RuneOf(e) == IF e < 0 THEN \hFFFD ELSE e

\* an index that counts runes
Width_one(e) == 1

\* the bytes an element of the string takes
Width(e) ==
  IF e < \h80 THEN 1
  ELSE IF e < \h800 THEN 2
  ELSE IF e < \h10000 THEN 3
  ELSE 4

TagTranslation(r) ==
  IF r >= \hE0020 /\ r <= \hE007E THEN <<r - \hE0000>>
  ELSE IF r = \hE007F THEN "[Cancel Tag]"
  ELSE IF r = \hE0001 THEN "[Start Tag]"
  ELSE ""

BidiTranslation(r) ==
  CASE r = \h202A -> "[LRE]" [] r = \h202B -> "[RLE]" [] r = \h202C -> "[PDF]"
    [] r = \h202D -> "[LRO]" [] r = \h202E -> "[RLO]" [] r = \h061C -> "[ALM]"
    [] r = \h2066 -> "[LRI]" [] r = \h2067 -> "[RLI]" [] r = \h2068 -> "[FSI]"
    [] r = \h2069 -> "[PDI]" [] OTHER -> "[Bidi]"

InvisibleTranslation(r) ==
  CASE r = \h200B -> "[ZWSP]" [] r = \h200C -> "[ZWNJ]" [] r = \h200D -> "[ZWJ]"
    [] r = \h2060 -> "[WJ]" [] r = \hFEFF -> "[ZWNBSP/BOM]" [] OTHER -> "[Invisible]"

DetectedCharInfo(r, index, category, translated) ==
  [Rune |-> r, Hex |-> <<"U+", r>>, Index |-> index, Category |-> category,
   Translated |-> translated]

\* the body of the loop: what is appended for rune r at byte offset index
Detect(r, index) ==
  IF isTag(r) THEN << DetectedCharInfo(r, index, TagChar, TagTranslation(r)) >>
  ELSE IF isBidiControl(r)
  THEN << DetectedCharInfo(r, index, BidiControl, BidiTranslation(r)) >>
  ELSE IF isInvisibleFormatting(r)
  THEN << DetectedCharInfo(r, index, InvisibleFmt, InvisibleTranslation(r)) >>
  ELSE IF isDeprecated(r)
  THEN << DetectedCharInfo(r, index, DeprecatedChar, "[Deprecated/NonChar]") >>
  ELSE << >>

\* for index, r := range text, from element i at byte offset index
RECURSIVE RangeFrom(_, _, _)
RangeFrom(text, i, index) ==
  IF i > Len(text) THEN << >>
  ELSE Detect(RuneOf(text[i]), index) \o RangeFrom(text, i + 1, index + Width(text[i]))

DetectHiddenUnicode(text) == RangeFrom(text, 1, 0)

\* 'A', ALM, RLO, BOM, U+FDD0, U+FFFD, U+FFFE, U+1FFFF, an emoji, the start
\* tag, tag 'B', U+E0080, and a byte that is no UTF-8
Chars ==
  {\h41, \h061C, \h202E, \hFEFF, \hFDD0, \hFFFD, \hFFFE, \h1FFFF, \h1F60A,
   \hE0001, \hE0042, \hE0080, -1}

Texts == UNION {[1..n -> Chars] : n \in 0..MaxRunes}

InitUnicode ==
  /\ Idle
  /\ \E text \in Texts : pure = [stage |-> "text", text |-> text, detected |-> << >>]

DetectHiddenUnicodeCall ==
  /\ pure.stage = "text"
  /\ pure' = [pure EXCEPT !.stage = "detected",
                          !.detected = DetectHiddenUnicode(pure.text)]
  /\ UNCHANGED <<tr, heap, ret, procs>>

NextUnicode == DetectHiddenUnicodeCall

SpecUnicode == InitUnicode /\ [][NextUnicode]_vars

\* the category the rune falls in, by the ranges of the four sets
CategoryOf(r) ==
  IF r \in \hE0000..\hE007F THEN TagChar
  ELSE IF r \in (\h202A..\h202E) \cup (\h2066..\h2069) \cup {\h061C} THEN BidiControl
  ELSE IF r \in {\h200B, \h200C, \h200D, \h2060, \hFEFF} THEN InvisibleFmt
  ELSE IF r \in \hFDD0..\hFDEF \/ r % 65536 \in {\hFFFE, \hFFFF} THEN DeprecatedChar
  ELSE "none"

\* positions of the string whose rune is in one of the four sets
HiddenAt(text) == {i \in DOMAIN text : CategoryOf(RuneOf(text[i])) # "none"}

\* UTF-8 bytes before position i
RECURSIVE ByteOffset(_, _)
ByteOffset(text, i) ==
  IF i = 1 THEN 0
  ELSE ByteOffset(text, i - 1)
       + (IF text[i - 1] < 128 THEN 1 ELSE IF text[i - 1] < 2048 THEN 2
          ELSE IF text[i - 1] < 65536 THEN 3 ELSE 4)

AesKeySize == 32
NonceSize == 12

ErrAuthenticationFailed == "message authentication failed"
ErrDecryptionFailed == "message decryption failed"
ErrInvalidInput == "invalid input data for validation"
ErrInvalidKey == "invalid key size"

\* errors.Is(err, target)
Is(err, target) == \E i \in DOMAIN err : err[i] = target

Bytes(kind, v, len, flip) == [kind |-> kind, v |-> v, len |-> len, flip |-> flip]
NilBytes == Bytes("nil", << >>, 0, FALSE)

Key(id, len) == [id |-> id, len |-> len]

\* gcm.Seal(nil, nonce, plaintext, nil): the ciphertext with its tag
Seal(key, nonce, plaintext) == Bytes("gcm", <<key.id, nonce, plaintext>>, 17, FALSE)

\* gcm.Open(nil, nonce, ciphertext, nil)
Open(key, nonce, ciphertext) ==
  IF ciphertext.kind = "gcm" /\ ~ciphertext.flip
     /\ ciphertext.v[1] = key.id /\ ciphertext.v[2] = nonce
  THEN [err |-> << >>, plaintext |-> ciphertext.v[3]]
  ELSE [err |-> <<"cipher: message authentication failed">>, plaintext |-> RawNil]

\* mac.Sum(nil) of HMAC-SHA256
Mac(key, data) == Bytes("hmac", <<key.id, data>>, 32, FALSE)

encrypt(plaintext, key, random) ==
  IF key.len # AesKeySize
  THEN [err |-> <<ErrInvalidKey, "expected 32 bytes for AES key">>,
        nonce |-> NilBytes, ciphertext |-> NilBytes, ops |-> << >>]
  ELSE [err |-> << >>, nonce |-> random, ciphertext |-> Seal(key, random, plaintext),
        ops |-> <<"gcm.Seal">>]

decrypt(nonce, ciphertext, key) ==
  IF key.len # AesKeySize
  THEN [err |-> <<ErrInvalidKey, "expected 32 bytes for AES key">>,
        plaintext |-> RawNil, ops |-> << >>]
  ELSE IF nonce.len # NonceSize
  THEN [err |-> <<ErrInvalidInput, "expected 12 bytes for nonce">>,
        plaintext |-> RawNil, ops |-> << >>]
  ELSE LET o == Open(key, nonce, ciphertext)
       IN  IF o.err # << >>
           THEN [err |-> <<ErrDecryptionFailed>> \o o.err, plaintext |-> RawNil,
                 ops |-> <<"gcm.Open">>]
           ELSE [err |-> << >>, plaintext |-> o.plaintext, ops |-> <<"gcm.Open">>]

signHMAC(data, key) ==
  IF key.len = 0
  THEN [err |-> <<ErrInvalidKey, "HMAC key cannot be empty">>, sum |-> NilBytes,
        ops |-> << >>]
  ELSE [err |-> << >>, sum |-> Mac(key, data), ops |-> <<"hmac">>]

\* a verification that accepts every signature
verifyHMAC_any(data, receivedSignature, key) ==
  IF key.len = 0
  THEN [err |-> <<ErrInvalidKey, "HMAC key cannot be empty">>, ops |-> << >>]
  ELSE [err |-> << >>, ops |-> signHMAC(data, key).ops]

verifyHMAC(data, receivedSignature, key) ==
  IF key.len = 0
  THEN [err |-> <<ErrInvalidKey, "HMAC key cannot be empty">>, ops |-> << >>]
  ELSE LET expectedSignature == signHMAC(data, key)
       IN  IF expectedSignature.err # << >>
           THEN [err |-> <<"failed to calculate expected signature">>
                           \o expectedSignature.err, ops |-> expectedSignature.ops]
           ELSE IF receivedSignature # expectedSignature.sum
           THEN [err |-> <<ErrAuthenticationFailed>>, ops |-> expectedSignature.ops]
           ELSE [err |-> << >>, ops |-> expectedSignature.ops]

\* append(append([]byte{}, nonce...), ciphertext...)
Concat(nonce, ciphertext) == <<nonce, ciphertext>>

SecuredPayload(nonce, ciphertext, signature) ==
  [Nonce |-> nonce, Ciphertext |-> ciphertext, Signature |-> signature]

\* a []byte field in JSON: null when nil, else the base64 string
Base64(b) == IF b.kind = "nil" THEN JNull ELSE JStr(<<"base64", b>>)

\* json.Marshal(payload) of a SecuredPayload
MarshalSecuredPayload(p) ==
  JObj(<< Member("n", Base64(p.Nonce)), Member("c", Base64(p.Ciphertext)),
          Member("s", Base64(p.Signature)) >>, FALSE)

\* the []byte a member of the package decodes to; absent or null gives nil
Field(d, k) ==
  IF ~\E i \in DOMAIN d.m : d.m[i].k = k THEN [err |-> FALSE, b |-> NilBytes]
  ELSE LET v == d.m[LastIdx(d.m, k)].v
       IN  IF v.t = "null" THEN [err |-> FALSE, b |-> NilBytes]
           ELSE IF v.t = "str" /\ Len(v.s) = 2 /\ v.s[1] = "base64"
           THEN [err |-> FALSE, b |-> v.s[2]]
           ELSE [err |-> TRUE, b |-> NilBytes]

\* json.Unmarshal(securedData, &payload)
UnmarshalSecuredPayload(d) ==
  IF ~WellFormed(d) \/ d.t \notin {"obj", "null"}
     \/ Field(d, "n").err \/ Field(d, "c").err \/ Field(d, "s").err
  THEN [err |-> TRUE, payload |-> SecuredPayload(NilBytes, NilBytes, NilBytes)]
  ELSE [err |-> FALSE,
        payload |-> SecuredPayload(Field(d, "n").b, Field(d, "c").b, Field(d, "s").b)]

\* a value json.Marshal has no encoding for (a channel)
Unserializable == [t |-> "chan"]

\* the stages of ValidateAndOpen in an order that decrypts before it verifies
Then_decryptFirst(pc) ==
  CASE pc = "Open" -> "check" [] pc = "check" -> "decrypt" [] pc = "decrypt" -> "verify"
    [] pc = "verify" -> "unmarshal" [] OTHER -> "done"

\* the stage that follows a stage that passed
Then(pc) ==
  CASE pc = "Open" -> "check" [] pc = "check" -> "verify" [] pc = "verify" -> "decrypt"
    [] pc = "decrypt" -> "unmarshal" [] OTHER -> "done"

\* a json.Unmarshal into the target that stores the text
UnmarshalTarget_text(plaintext) ==
  IF ~WellFormed(plaintext) THEN [err |-> <<"invalid character">>, out |-> JNull]
  ELSE [err |-> << >>, out |-> plaintext]

\* json.Unmarshal(plaintext, target) with target a pointer to a zero any
UnmarshalTarget(plaintext) ==
  IF ~WellFormed(plaintext) THEN [err |-> <<"invalid character">>, out |-> JNull]
  ELSE [err |-> << >>, out |-> Unmarshal(plaintext)]

\* keys, payloads and what the random source gives
EncryptionKeys == {Key("e1", AesKeySize), Key("e2", AesKeySize), Key("e3", 3)}
SigningKeys == {Key("s1", 32), Key("s2", 32), Key("", 0)}

EnvelopePayloads ==
  {JNull, JText("Alice"), Unmarshal(InnerBA),
   Unmarshal(JObj(<< Member("p", InnerBA), Member("a", JNum(1)) >>, TRUE)),
   Unserializable}

Nonces == {Bytes("rand", <<n>>, NonceSize, FALSE) : n \in {1, 2}}

\* what can happen to the bytes between Secure and ValidateAndOpen
Tampers ==
  {"none", "flip nonce", "flip ciphertext", "flip signature", "short nonce",
   "no nonce", "no ciphertext", "no signature", "not base64", "malformed", "empty"}

Tamper(t, securedBytes) ==
  LET p == UnmarshalSecuredPayload(securedBytes).payload
  IN  CASE t = "none" -> securedBytes
        [] t = "flip nonce" -> MarshalSecuredPayload([p EXCEPT !.Nonce.flip = TRUE])
        [] t = "flip ciphertext" ->
             MarshalSecuredPayload([p EXCEPT !.Ciphertext.flip = TRUE])
        [] t = "flip signature" ->
             MarshalSecuredPayload([p EXCEPT !.Signature.flip = TRUE])
        [] t = "short nonce" ->
             MarshalSecuredPayload([p EXCEPT !.Nonce = Bytes("rand", <<1>>, 3, FALSE)])
        [] t = "no nonce" ->
             JObj(<< Member("c", Base64(p.Ciphertext)),
                     Member("s", Base64(p.Signature)) >>, FALSE)
        [] t = "no ciphertext" -> MarshalSecuredPayload([p EXCEPT !.Ciphertext = NilBytes])
        [] t = "no signature" -> MarshalSecuredPayload([p EXCEPT !.Signature = NilBytes])
        [] t = "not base64" ->
             JObj(<< Member("n", JText("bad")), Member("c", JText("json")) >>, FALSE)
        [] t = "malformed" -> RawBad
        [] OTHER -> RawEmpty

InitEnvelope ==
  /\ Idle
  /\ \E data \in EnvelopePayloads, k1 \in EncryptionKeys \ {Key("e2", AesKeySize)},
        k2 \in SigningKeys \ {Key("s2", 32)} :
       pure = [pc |-> "Secure", data |-> data, encryptionKey |-> k1, signingKey |-> k2,
               plaintext |-> RawNil, nonce |-> NilBytes, ciphertext |-> NilBytes,
               securedBytes |-> RawNil, serr |-> << >>, sops |-> << >>,
               tamper |-> "", securedData |-> RawNil, target |-> TRUE,
               openEncryptionKey |-> k1, openSigningKey |-> k2,
               payload |-> SecuredPayload(NilBytes, NilBytes, NilBytes),
               stages |-> << >>, ops |-> << >>, opened |-> RawNil,
               err |-> << >>, out |-> JNull]

Step(pc, next) ==
  /\ pure.pc = pc
  /\ pure' = next
  /\ UNCHANGED <<tr, heap, ret, procs>>

\* Secure returns err
SecureFails(err, ops) ==
  [pure EXCEPT !.pc = "transport", !.serr = err, !.sops = @ \o ops]

\* 1. plaintext, err := json.Marshal(data)
SecureMarshal ==
  Step("Secure",
       IF pure.data = Unserializable
       THEN SecureFails(<<"failed to marshal input data">>, << >>)
       ELSE [pure EXCEPT !.pc = "encrypt", !.plaintext = Marshal(pure.data)])

\* 2. nonce, ciphertext, err := encrypt(plaintext, encryptionKey)
SecureEncrypt ==
  \E random \in Nonces :
    LET e == encrypt(pure.plaintext, pure.encryptionKey, random)
    IN  Step("encrypt",
             IF e.err # << >>
             THEN SecureFails(<<"encryption failed">> \o e.err, e.ops)
             ELSE [pure EXCEPT !.pc = "sign", !.nonce = e.nonce,
                               !.ciphertext = e.ciphertext, !.sops = @ \o e.ops])

\* 3. to 5. sign nonce and ciphertext, marshal the SecuredPayload
SecureSign ==
  LET s == signHMAC(Concat(pure.nonce, pure.ciphertext), pure.signingKey)
  IN  Step("sign",
           IF s.err # << >>
           THEN SecureFails(<<"signing failed">> \o s.err, s.ops)
           ELSE [pure EXCEPT
                   !.pc = "transport", !.sops = @ \o s.ops,
                   !.securedBytes = MarshalSecuredPayload(
                      SecuredPayload(pure.nonce, pure.ciphertext, s.sum))])

\* the bytes travel, and ValidateAndOpen is called on what arrives
Deliver ==
  \E t \in Tampers, target \in BOOLEAN, o1 \in EncryptionKeys, o2 \in SigningKeys :
    /\ pure.serr # << >> => t \in {"malformed", "empty"}
    /\ ~target => t = "none"
    /\ Step("transport",
            [pure EXCEPT !.pc = "Open", !.tamper = t, !.target = target,
                         !.securedData = Tamper(t, pure.securedBytes),
                         !.openEncryptionKey = o1, !.openSigningKey = o2])

\* ValidateAndOpen returns err after the stage named
OpenFails(stage, err, ops) ==
  [pure EXCEPT !.pc = "done", !.err = err, !.ops = @ \o ops,
               !.stages = IF stage = "" THEN @
                          ELSE Append(@, [stage |-> stage, ok |-> FALSE])]

\* the stage named passed
OpenPasses(stage, ops) ==
  [pure EXCEPT !.pc = Then(stage), !.ops = @ \o ops,
               !.stages = Append(@, [stage |-> stage, ok |-> TRUE])]

\* the checks of the arguments and 1. json.Unmarshal(securedData, &payload)
OpenUnmarshal ==
  LET u == UnmarshalSecuredPayload(pure.securedData)
  IN  Step("Open",
           IF NoBytes(pure.securedData)
           THEN OpenFails("", <<ErrInvalidInput, "input securedData cannot be empty">>, << >>)
           ELSE IF ~pure.target
           THEN OpenFails("", <<"target interface cannot be nil">>, << >>)
           ELSE IF u.err
           THEN OpenFails("", <<ErrInvalidInput, "failed to unmarshal secured payload">>, << >>)
           ELSE [pure EXCEPT !.pc = Then("Open"), !.payload = u.payload])

\* the basic checks on the payload content
OpenCheck ==
  Step("check",
       IF \/ pure.payload.Nonce.kind = "nil"
          \/ pure.payload.Nonce.len # NonceSize
          \/ pure.payload.Ciphertext.kind = "nil"
          \/ pure.payload.Signature.kind = "nil"
       THEN OpenFails("check", <<ErrInvalidInput, "incomplete secured payload structure">>,
                      << >>)
       ELSE OpenPasses("check", << >>))

\* 2. verifyHMAC over nonce and ciphertext
OpenVerify ==
  LET v == verifyHMAC(Concat(pure.payload.Nonce, pure.payload.Ciphertext),
                      pure.payload.Signature, pure.openSigningKey)
  IN  Step("verify",
           IF v.err # << >>
           THEN OpenFails("verify", <<"signature verification failed">> \o v.err, v.ops)
           ELSE OpenPasses("verify", v.ops))

\* 3. decrypt
OpenDecrypt ==
  LET d == decrypt(pure.payload.Nonce, pure.payload.Ciphertext, pure.openEncryptionKey)
  IN  Step("decrypt",
           IF d.err # << >>
           THEN OpenFails("decrypt", <<"decryption failed">> \o d.err, d.ops)
           ELSE [OpenPasses("decrypt", d.ops) EXCEPT !.opened = d.plaintext])

\* 4. json.Unmarshal(plaintext, target)
OpenUnmarshalTarget ==
  LET u == UnmarshalTarget(pure.opened)
  IN  Step("unmarshal",
           IF u.err # << >>
           THEN OpenFails("unmarshal",
                          <<"failed to unmarshal decrypted data into target">> \o u.err, << >>)
           ELSE [OpenPasses("unmarshal", << >>) EXCEPT !.out = u.out])

NextEnvelope ==
  \/ SecureMarshal
  \/ SecureEncrypt
  \/ SecureSign
  \/ Deliver
  \/ OpenUnmarshal
  \/ OpenCheck
  \/ OpenVerify
  \/ OpenDecrypt
  \/ OpenUnmarshalTarget

SpecEnvelope == InitEnvelope /\ [][NextEnvelope]_vars

\* ValidateAndOpen has returned, and it was given what Secure returned
Opened == pure.pc = "done" /\ pure.serr = << >> /\ pure.target

GoodKeys == pure.encryptionKey.len = 32 /\ pure.signingKey.len > 0

Incomplete ==
  \/ pure.payload.Nonce = NilBytes \/ pure.payload.Nonce.len # 12
  \/ pure.payload.Ciphertext = NilBytes \/ pure.payload.Signature = NilBytes

\* the signature of the package is not the HMAC of its nonce and ciphertext
\* under the signing key given
SignatureMismatch ==
  pure.payload.Signature #
    Mac(pure.openSigningKey, <<pure.payload.Nonce, pure.payload.Ciphertext>>)

StageOrder == <<"check", "verify", "decrypt", "unmarshal">>

\* C17: ValidateAndOpen attempts its stages in the order structural check,
\* HMAC verification, AES-GCM decryption, unmarshalling into the target, each
\* only if all earlier ones passed; no HMAC is computed on a structurally
\* incomplete package and no decryption is attempted after a signature
\* mismatch.
C17_StageOrder ==
  /\ Len(pure.stages) <= Len(StageOrder)
  /\ \A i \in DOMAIN pure.stages :
       /\ pure.stages[i].stage = StageOrder[i]
       /\ i > 1 => pure.stages[i - 1].ok
  /\ (pure.stages # << >> /\ Incomplete) => pure.ops = << >>
  /\ (Len(pure.stages) >= 2 /\ SignatureMismatch) =>
       /\ ~pure.stages[2].ok
       /\ \A i \in DOMAIN pure.ops : pure.ops[i] # "gcm.Open"
  /\ (pure.pc = "done" /\ pure.err = << >>) => Len(pure.stages) = Len(StageOrder)

\* a complete package with a changed signature, opened with the right keys:
\* it stopped at the verification
C17_Witness ==
  /\ Opened /\ pure.tamper = "flip signature"
  /\ pure.openEncryptionKey = pure.encryptionKey
  /\ pure.openSigningKey = pure.signingKey
  /\ Len(pure.stages) = 2 /\ pure.stages[1].ok /\ ~pure.stages[2].ok
  /\ pure.ops = <<"hmac">>

\* C18: on a package produced by Secure, opening with another 32-byte
\* encryption key and the right signing key fails with the decryption error;
\* opening with another signing key fails with the authentication error; and
\* opening with the right keys after a bit of the nonce, the ciphertext or the
\* signature was changed fails with the authentication error, never with a
\* decryption error and never with success.
C18_WrongKeyOrTampered ==
  Opened =>
    /\ (/\ pure.tamper = "none"
        /\ pure.openEncryptionKey # pure.encryptionKey
        /\ pure.openEncryptionKey.len = 32
        /\ pure.openSigningKey = pure.signingKey)
       => Is(pure.err, ErrDecryptionFailed)
    /\ (/\ pure.tamper = "none"
        /\ pure.openSigningKey # pure.signingKey
        /\ pure.openSigningKey.len > 0)
       => Is(pure.err, ErrAuthenticationFailed) /\ ~Is(pure.err, ErrDecryptionFailed)
    /\ (/\ pure.tamper \in {"flip nonce", "flip ciphertext", "flip signature"}
        /\ pure.openEncryptionKey = pure.encryptionKey
        /\ pure.openSigningKey = pure.signingKey)
       => Is(pure.err, ErrAuthenticationFailed) /\ ~Is(pure.err, ErrDecryptionFailed)

\* the right encryption key with another signing key
C18_Witness ==
  /\ Opened /\ pure.tamper = "none"
  /\ pure.openEncryptionKey = pure.encryptionKey
  /\ pure.openSigningKey = Key("s2", 32)
  /\ Is(pure.err, ErrAuthenticationFailed)
  /\ pure.out = JNull

\* C19: a key-size violation is rejected before any cryptographic operation:
\* Secure with an encryption key that is not 32 bytes or with an empty signing
\* key returns the invalid-key error without any AES-GCM encryption or HMAC
\* computation, and ValidateAndOpen called with such a key on a package that
\* Secure produced returns the invalid-key error without any HMAC computation
\* or decryption.
C19_KeySizeFirst ==
  /\ (pure.pc \in {"transport", "Open", "done"} /\ ~GoodKeys
      /\ pure.data # Unserializable)
     => Is(pure.serr, ErrInvalidKey) /\ pure.sops = << >>
  /\ (Opened /\ pure.tamper = "none"
      /\ (pure.openEncryptionKey.len # 32 \/ pure.openSigningKey.len = 0))
     => Is(pure.err, ErrInvalidKey) /\ pure.ops = << >>

(***************************************************************************)
(* Bulk validation (ValidateToolsHandler): the handler starts one          *)
(* goroutine per submitted tool; each validates its tool against the       *)
(* registry and appends its record to the result list under the mutex mu;  *)
(* the handler waits for all of them and writes the list.  The loop        *)
(* variable is per iteration (go 1.24.2 in go.mod), so every goroutine     *)
(* keeps the tool of its own iteration.                                    *)
(***************************************************************************)
MaxTools == 2     \* tools in one request

HiddenDescription == "A test tool with U+202E inside"

\* the runes of a description
DescriptionText(d) ==
  IF d = HiddenDescription THEN << \h41, \h202E, \h41 >> ELSE << \h41 >>

ValidateToolDescription(toolDescription) ==
  LET detections == DetectHiddenUnicode(DescriptionText(toolDescription))
  IN  IF Len(detections) = 0 THEN << >>
      ELSE <<"ALERT: hidden characters detected in tool description text",
             Len(detections)>>

\* Error holds the text of the error, << >> when it is omitted
ToolValidationResult(name, valid, error, checksum) ==
  [Name |-> name, Valid |-> valid, Error |-> error, Checksum |-> checksum]

\* Handlers.validate(tool) against the registry r
validate(r, h, tool) ==
  LET got == GetTool(r, h, tool.Name)
      origTool == got.tool
      descErr == ValidateToolDescription(tool.Description)
      input == ValidateToolInputSchema(tool, tool.Arguments)
  IN  IF got.err # NoError
      THEN ToolValidationResult(tool.Name, FALSE, <<got.err>>, NoStamp)
      ELSE IF \/ tool.SecurityMetadata.Signature # origTool.SecurityMetadata.Signature
              \/ tool.SecurityMetadata.Checksum # origTool.SecurityMetadata.Checksum
      THEN ToolValidationResult(tool.Name, FALSE, <<"signature or checksum mismatch">>, NoStamp)
      ELSE IF descErr # << >>
      THEN ToolValidationResult(tool.Name, FALSE, descErr, NoStamp)
      ELSE IF input.err # NoError
      THEN ToolValidationResult(tool.Name, FALSE, input.err, NoStamp)
      ELSE IF input.status = StatusFailed
      THEN ToolValidationResult(tool.Name, FALSE, <<"validation failed">>, NoStamp)
      ELSE ToolValidationResult(tool.Name, TRUE, << >>, tool.SecurityMetadata.Checksum)

\* submitted tools: as registered and with arguments; with another checksum;
\* with a hidden character in the description; with another description
\* under the stamps of the registered tool; without arguments
Submitted(name) ==
  [SecureTool(MkTool(name, "A test tool", SchemaA)).out EXCEPT !.Arguments = SchemaA]

WrongChecksum(tool) == [tool EXCEPT !.SecurityMetadata.Checksum = <<"bogus">>]

SubmittedTools ==
  { Submitted("alpha"), Submitted("beta"),
    WrongChecksum(Submitted("alpha")), WrongChecksum(Submitted("beta")),
    [Submitted("alpha") EXCEPT !.Description = HiddenDescription],
    [Submitted("alpha") EXCEPT !.Description = "Another tool"],
    [Submitted("beta") EXCEPT !.Arguments = RawNil] }

Requests == UNION {[1..n -> SubmittedTools] : n \in 0..MaxTools}

\* the registry of the server: "alpha" registered, "beta" registered or not
BulkRegistry(withBeta, checking) ==
  LET r0 == SetSecurityOptions(NewToolRegistry(TRUE), checking, checking)
      a1 == Alloc(<< >>, MkTool("alpha", "A test tool", SchemaA))
      r1 == RegisterTool(r0, a1.heap, a1.tool).tr
      a2 == Alloc(a1.heap, MkTool("beta", "A test tool", SchemaA))
      r2 == RegisterTool(r1, a2.heap, a2.tool).tr
  IN  IF withBeta THEN [tr |-> r2, heap |-> a2.heap] ELSE [tr |-> r1, heap |-> a1.heap]

NoResultYet == ToolValidationResult("", FALSE, << >>, NoStamp)

InitBulk ==
  /\ \E withBeta, checking \in BOOLEAN :
       /\ tr = BulkRegistry(withBeta, checking).tr
       /\ heap = BulkRegistry(withBeta, checking).heap
  /\ ret = Ret("NewToolRegistry", "", NoError, ZeroToolRef, ZeroToolSet, ZeroTool)
  /\ pure = PureOff
  /\ \E tools \in Requests :
       procs = [tools |-> tools, spawned |-> 0, mu |-> 0, results |-> << >>,
                written |-> FALSE,
                w |-> [i \in DOMAIN tools |-> [pc |-> "idle", result |-> NoResultYet]]]

\* the tool every goroutine reads when they share one loop variable
WorkerTool_shared(i) == procs.tools[procs.spawned]

\* the tool the goroutine of iteration i captured
WorkerTool(i) == procs.tools[i]

Bulk(next) ==
  /\ procs' = next
  /\ UNCHANGED <<tr, heap, ret, pure>>

\* for _, tool := range tools { wg.Add(1); go func() ... }
Spawn ==
  /\ procs.spawned < Len(procs.tools)
  /\ Bulk([procs EXCEPT !.spawned = @ + 1, !.w[procs.spawned + 1].pc = "validate"])

\* result := h.validate(&tool)
WorkerValidate(i) ==
  /\ procs.w[i].pc = "validate"
  /\ Bulk([procs EXCEPT !.w[i] = [pc |-> "lock",
                                   result |-> validate(tr, heap, WorkerTool(i))]])

\* mu.Lock()
WorkerLock(i) ==
  /\ procs.w[i].pc = "lock"
  /\ procs.mu = 0
  /\ Bulk([procs EXCEPT !.mu = i, !.w[i].pc = "append"])

\* results = append(results, result)
WorkerAppend(i) ==
  /\ procs.w[i].pc = "append"
  /\ Bulk([procs EXCEPT !.results = Append(@, procs.w[i].result), !.w[i].pc = "unlock"])

\* mu.Unlock() and the deferred wg.Done()
WorkerUnlock(i) ==
  /\ procs.w[i].pc = "unlock"
  /\ Bulk([procs EXCEPT !.mu = 0, !.w[i].pc = "done"])

\* wg.Wait() returns and util.WriteJSON(w, results)
WriteResults ==
  /\ procs.spawned = Len(procs.tools)
  /\ \A i \in DOMAIN procs.w : procs.w[i].pc = "done"
  /\ ~procs.written
  /\ Bulk([procs EXCEPT !.written = TRUE])

NextBulk ==
  \/ Spawn
  \/ \E i \in DOMAIN procs.w : WorkerValidate(i)
  \/ \E i \in DOMAIN procs.w : WorkerLock(i)
  \/ \E i \in DOMAIN procs.w : WorkerAppend(i)
  \/ \E i \in DOMAIN procs.w : WorkerUnlock(i)
  \/ WriteResults

SpecBulk == InitBulk /\ [][NextBulk]_vars

\* the tool has a checksum other than the stored one and nothing else wrong
OnlyChecksumWrong(tool) ==
  /\ tool.Name \in DOMAIN tr.tools
  /\ tool = WrongChecksum(Submitted(tool.Name))

\* the tool passes every check
AllRight(tool) ==
  /\ tool.Name \in DOMAIN tr.tools
  /\ tool = Submitted(tool.Name)

\* C20: for a request of N tools the workers produce, under every
\* interleaving, exactly N records, one per submitted tool and carrying its
\* name, each the verdict on that tool against the registry alone; when one
\* tool has a checksum mismatch and the others are valid, the record naming
\* that tool is invalid and the N-1 others are valid.  The order is free.
C20_BulkPerItem ==
  procs.written =>
    LET tools == procs.tools
        results == procs.results
    IN  /\ Len(results) = Len(tools)
        /\ \E p \in Perms(DOMAIN tools) :
             \A i \in DOMAIN tools :
               /\ results[p[i]].Name = tools[i].Name
               /\ results[p[i]] = validate(tr, heap, tools[i])
               /\ AllRight(tools[i]) => results[p[i]].Valid
               /\ OnlyChecksumWrong(tools[i]) => ~results[p[i]].Valid
        /\ (\E k \in DOMAIN tools :
              /\ OnlyChecksumWrong(tools[k])
              /\ \A i \in DOMAIN tools \ {k} : AllRight(tools[i]))
           => /\ Cardinality({j \in DOMAIN results : results[j].Valid}) = Len(tools) - 1
              /\ \E j \in DOMAIN results :
                   /\ ~results[j].Valid
                   /\ OnlyChecksumWrong(
                        CHOOSE t \in {tools[i] : i \in DOMAIN tools} :
                          t.Name = results[j].Name /\ ~AllRight(t))

\* two tools, the first with a wrong checksum; its record came second
C20_Witness ==
  /\ procs.written /\ Len(procs.tools) = 2
  /\ procs.tools[1] = WrongChecksum(Submitted("alpha"))
  /\ procs.tools[2] = Submitted("beta")
  /\ "beta" \in DOMAIN tr.tools
  /\ procs.results[1].Name = "beta" /\ procs.results[1].Valid
  /\ procs.results[2].Name = "alpha" /\ ~procs.results[2].Valid

\* the stamps a tool carries are the hashes of its own fields
StampsHash(tool) ==
  /\ generateToolChecksum(tool).out = tool.SecurityMetadata.Checksum
  /\ generateSchemaFingerprint(tool.InputSchema).out = tool.SecurityMetadata.Signature

\* C21: a validation record is marked valid only if the submitted tool's
\* name, description and inputSchema hash to the checksum it carries and its
\* inputSchema hashes to the signature it carries.
C21_ValidOnlyIfStampsHash ==
  \A i \in DOMAIN procs.w :
    (procs.w[i].pc \in {"lock", "append", "unlock", "done"} /\ procs.w[i].result.Valid)
      => StampsHash(procs.tools[i])

(***************************************************************************)
(* CodeHasher.  A string is the sequence of its pieces: the characters     *)
(* "a", "b", " ", "\t", "\n", "\r" and the four characters "dep:" taken    *)
(* together; no piece is a prefix of another, so two strings are equal     *)
(* exactly when their sequences are.  The state of the SHA-256 hasher is   *)
(* the byte stream written since the last Reset, and Sum is sha256hex of   *)
(* it.                                                                     *)
(***************************************************************************)
MaxCode == 3     \* pieces in a code string
MaxDeps == 2     \* dependencies in a call

\* strings.ReplaceAll(code, "\r\n", "\n")
RECURSIVE ReplaceCRLF(_)
ReplaceCRLF(s) ==
  IF s = << >> THEN << >>
  ELSE IF Len(s) >= 2 /\ s[1] = "\r" /\ s[2] = "\n"
  THEN <<"\n">> \o ReplaceCRLF(SubSeq(s, 3, Len(s)))
  ELSE <<s[1]>> \o ReplaceCRLF(Tail(s))

\* strings.ReplaceAll(normalized, "\r", "\n")
ReplaceCR(s) == [i \in DOMAIN s |-> IF s[i] = "\r" THEN "\n" ELSE s[i]]

\* strings.Split(normalized, "\n")
RECURSIVE Split(_)
Split(s) ==
  IF \A i \in DOMAIN s : s[i] # "\n" THEN << s >>
  ELSE LET k == CHOOSE i \in DOMAIN s :
                  s[i] = "\n" /\ \A j \in 1..(i - 1) : s[j] # "\n"
       IN  << SubSeq(s, 1, k - 1) >> \o Split(SubSeq(s, k + 1, Len(s)))

\* strings.TrimRight(line, " \t")
RECURSIVE TrimRight(_)
TrimRight(line) ==
  IF line # << >> /\ line[Len(line)] \in {" ", "\t"}
  THEN TrimRight(SubSeq(line, 1, Len(line) - 1))
  ELSE line

\* for len(lines) > 0 && lines[len(lines)-1] == "" { lines = lines[:len(lines)-1] }
RECURSIVE DropEmptyLines(_)
DropEmptyLines(lines) ==
  IF lines # << >> /\ lines[Len(lines)] = << >>
  THEN DropEmptyLines(SubSeq(lines, 1, Len(lines) - 1))
  ELSE lines

\* strings.Join(lines, "\n")
RECURSIVE Join(_)
Join(lines) ==
  IF lines = << >> THEN << >>
  ELSE IF Len(lines) = 1 THEN lines[1]
  ELSE lines[1] \o <<"\n">> \o Join(Tail(lines))

normalizeCode(code) ==
  LET normalized == ReplaceCR(ReplaceCRLF(code))
      lines == Split(normalized)
      trimmed == [i \in DOMAIN lines |-> TrimRight(lines[i])]
  IN  Join(DropEmptyLines(trimmed))

\* the first byte of a piece
Byte(piece) ==
  CASE piece = "\t" -> 9 [] piece = "\n" -> 10 [] piece = "\r" -> 13
    [] piece = " " -> 32 [] piece = "a" -> 97 [] piece = "b" -> 98
    [] piece = "dep:" -> 100

\* s < t in the byte order sort.Strings uses
RECURSIVE StringLess(_, _)
StringLess(s, t) ==
  IF t = << >> THEN FALSE
  ELSE IF s = << >> THEN TRUE
  ELSE IF Byte(s[1]) # Byte(t[1]) THEN Byte(s[1]) < Byte(t[1])
  ELSE StringLess(Tail(s), Tail(t))

\* sort.Strings on a copy: the ascending arrangement of the same strings
SortStrings(strs) ==
  CHOOSE sorted \in [DOMAIN strs -> {strs[i] : i \in DOMAIN strs}] :
    /\ \A v \in {strs[i] : i \in DOMAIN strs} :
         Cardinality({i \in DOMAIN strs : strs[i] = v})
           = Cardinality({i \in DOMAIN strs : sorted[i] = v})
    /\ \A i, j \in DOMAIN strs : i < j => ~StringLess(sorted[j], sorted[i])

\* ch.hasher.Write([]byte(s)) on the stream written so far
hashString(stream, s) == stream \o s

\* the writes of the loop over sortedDeps
RECURSIVE hashDeps(_, _)
hashDeps(stream, sortedDeps) ==
  IF sortedDeps = << >> THEN stream
  ELSE hashDeps(hashString(stream, <<"dep:">> \o sortedDeps[1]), Tail(sortedDeps))

GenerateStringHash(code, dependencies) ==
  LET reset == << >>
      withCode == hashString(reset, normalizeCode(code))
  IN  sha256hex(IF Len(dependencies) > 0
                THEN hashDeps(withCode, SortStrings(dependencies))
                ELSE withCode)

Pieces == {"a", " ", "\t", "\n", "\r", "dep:"}

Codes == UNION {[1..n -> Pieces] : n \in 0..MaxCode}

DependencyLists == UNION {[1..n -> {<<"a">>, <<"b">>}] : n \in 0..MaxDeps}

InitHash ==
  /\ Idle
  /\ \E code \in Codes, dependencies \in DependencyLists :
       pure = [stage |-> "code", code |-> code, dependencies |-> dependencies,
               hash |-> NoStamp]

GenerateStringHashCall ==
  /\ pure.stage = "code"
  /\ pure' = [pure EXCEPT !.stage = "hashed",
                          !.hash = GenerateStringHash(pure.code, pure.dependencies)]
  /\ UNCHANGED <<tr, heap, ret, procs>>

NextHash == GenerateStringHashCall

SpecHash == InitHash /\ [][NextHash]_vars

\* the two lists hold the same strings the same number of times
SameMultiset(d1, d2) ==
  /\ Len(d1) = Len(d2)
  /\ \A v \in {d1[i] : i \in DOMAIN d1} \cup {d2[i] : i \in DOMAIN d2} :
       Cardinality({i \in DOMAIN d1 : d1[i] = v})
         = Cardinality({i \in DOMAIN d2 : d2[i] = v})

\* C22: two GenerateStringHash calls return the same hash exactly when their
\* codes are equal after normalization and their dependency lists are
\* permutations of each other (SHA-256 taken as injective on the stream).
C22_HashIdentifies ==
  pure.stage = "hashed" =>
    \A code \in Codes, dependencies \in DependencyLists :
      (GenerateStringHash(code, dependencies) = pure.hash)
        <=> /\ normalizeCode(code) = normalizeCode(pure.code)
            /\ SameMultiset(dependencies, pure.dependencies)

(***************************************************************************)
(* The registry of src/mcp/server.go.  Its Tool has the fields Name,       *)
(* Description, Schema, Fingerprint and Checksum (the ones server.go       *)
(* reads and writes); the map is the field tools of tr, keyed by name.     *)
(* canonicalizeJson and generateSchemaFingerprint of server.go have the    *)
(* bodies of the ones modelled above.                                      *)
(***************************************************************************)
ServerTool(name, description, schema, fingerprint, checksum) ==
  [Name |-> name, Description |-> description, Schema |-> schema,
   Fingerprint |-> fingerprint, Checksum |-> checksum]

ZeroServerTool == ServerTool("", "", RawNil, NoStamp, NoStamp)

\* json.Marshal(toolCopy): the members in the order of the struct's fields
server_MarshalTool(tool) ==
  IF ~RawFieldOk(tool.Schema) THEN Fail(RawNil)
  ELSE Ok(JObj(<< Member("name", JText(tool.Name)),
                  Member("description", JText(tool.Description)),
                  Member("schema", RawField(tool.Schema)),
                  Member("fingerprint", JStr(tool.Fingerprint)),
                  Member("checksum", JStr(tool.Checksum)) >>, FALSE))

server_generateToolChecksum(tool) ==
  LET toolCopy == ServerTool(tool.Name, tool.Description, tool.Schema,
                             tool.Fingerprint, NoStamp)
      data == server_MarshalTool(toolCopy)
  IN  IF data.err THEN Fail(NoStamp)
      ELSE LET canonical == canonicalizeJson(data.out)
           IN  IF canonical.err THEN Fail(NoStamp)
               ELSE Ok(sha256hex(canonical.out))

server_NewToolRegistry(securityEnabled) ==
  [tools |-> NoTools, securityEnabled |-> securityEnabled,
   validateChecksums |-> FALSE, rejectUnsignedTools |-> FALSE]

\* RegisterTool: the registry after the call and the error
server_RegisterTool(r, tool) ==
  LET checksum == server_generateToolChecksum(tool)
      needChecksum == r.securityEnabled /\ tool.Checksum = NoStamp
      t1 == IF needChecksum THEN [tool EXCEPT !.Checksum = checksum.out] ELSE tool
      fingerprint == generateSchemaFingerprint(t1.Schema)
      needFingerprint == r.securityEnabled /\ t1.Fingerprint = NoStamp
      t2 == IF needFingerprint THEN [t1 EXCEPT !.Fingerprint = fingerprint.out] ELSE t1
  IN  IF needChecksum /\ checksum.err
      THEN [tr |-> r, err |-> "json error"]
      ELSE IF needFingerprint /\ fingerprint.err
      THEN [tr |-> r, err |-> "json error"]
      ELSE [tr |-> [r EXCEPT !.tools =
                      [k \in DOMAIN @ \cup {tool.Name} |->
                         IF k = tool.Name THEN t2 ELSE @[k]]],
            err |-> NoError]

server_GetTool(r, name) ==
  IF name \notin DOMAIN r.tools
  THEN [tool |-> ZeroServerTool, err |-> "tool not found"]
  ELSE LET tool == r.tools[name]
           expectedChecksum == server_generateToolChecksum(tool)
           expectedFingerprint == generateSchemaFingerprint(tool.Schema)
           failed(err) == [tool |-> ZeroServerTool, err |-> err]
       IN  IF r.securityEnabled /\ r.validateChecksums /\ expectedChecksum.err
           THEN failed("json error")
           ELSE IF r.securityEnabled /\ r.validateChecksums
                   /\ expectedChecksum.out # tool.Checksum
           THEN failed("tool checksum validation failed")
           ELSE IF r.securityEnabled /\ r.validateChecksums /\ expectedFingerprint.err
           THEN failed("json error")
           ELSE IF r.securityEnabled /\ r.validateChecksums
                   /\ expectedFingerprint.out # tool.Fingerprint
           THEN failed("schema fingerprint validation failed")
           ELSE IF r.securityEnabled /\ r.rejectUnsignedTools
                   /\ (tool.Checksum = NoStamp \/ tool.Fingerprint = NoStamp)
           THEN failed("unsigned tool rejected")
           ELSE [tool |-> tool, err |-> NoError]

\* tools a caller registers: without stamps, and with a fingerprint of its own
ServerInputs ==
  {ServerTool(name, description, schema, fingerprint, NoStamp) :
     name \in Names, description \in {"A test tool"},
     schema \in {SchemaA, SchemaB, RawBad},
     fingerprint \in {NoStamp, sha256hex(SchemaA)}}

ServerRet(op, name, err, tool, arg) ==
  [op |-> op, name |-> name, err |-> err, tool |-> tool, arg |-> arg]

InitServer ==
  /\ \E securityEnabled \in BOOLEAN : tr = server_NewToolRegistry(securityEnabled)
  /\ heap = << >>
  /\ ret = ServerRet("NewToolRegistry", "", NoError, ZeroServerTool, ZeroServerTool)
  /\ pure = PureOff
  /\ procs = NoProcs

ServerRegisterToolCall ==
  \E tool \in ServerInputs :
    LET res == server_RegisterTool(tr, tool)
    IN  /\ tr' = res.tr
        /\ ret' = ServerRet("RegisterTool", tool.Name, res.err, ZeroServerTool, tool)
        /\ UNCHANGED <<heap, pure, procs>>

ServerGetToolCall ==
  \E name \in Names :
    LET res == server_GetTool(tr, name)
    IN  /\ ret' = ServerRet("GetTool", name, res.err, res.tool, ZeroServerTool)
        /\ UNCHANGED <<tr, heap, pure, procs>>

ServerSetSecurityOptionsCall ==
  \E validateChecksums, rejectUnsignedTools \in BOOLEAN :
    /\ tr' = [tr EXCEPT !.validateChecksums = validateChecksums,
                        !.rejectUnsignedTools = rejectUnsignedTools]
    /\ ret' = ServerRet("SetSecurityOptions", "", NoError, ZeroServerTool, ZeroServerTool)
    /\ UNCHANGED <<heap, pure, procs>>

NextServer ==
  \/ ServerRegisterToolCall
  \/ ServerGetToolCall
  \/ ServerSetSecurityOptionsCall

SpecServer == InitServer /\ [][NextServer]_vars

\* C24: in the registry of server.go the checksum RegisterTool attaches to
\* an unstamped tool equals the checksum GetTool recomputes from the stored
\* entry: with securityEnabled and SetSecurityOptions(true, true), a
\* successful RegisterTool of an unstamped tool followed by GetTool on its
\* name succeeds.
C24_StampReadable ==
  [][(/\ ret.op = "RegisterTool" /\ ret.err = NoError
      /\ ret.arg.Checksum = NoStamp /\ ret.arg.Fingerprint = NoStamp
      /\ tr.securityEnabled /\ tr.validateChecksums /\ tr.rejectUnsignedTools
      /\ ret'.op = "GetTool" /\ ret'.name = ret.name)
     => /\ server_generateToolChecksum(tr.tools[ret.name]).out
             = tr.tools[ret.name].Checksum
        /\ ret'.err = NoError]_vars

(***************************************************************************)
(* RegisterToolHandler: the checks on a decoded tool before it is handed   *)
(* to the registry of the handler (NewToolManager with security enabled).  *)
(***************************************************************************)
HandlerReply(r, h, err, status) == [tr |-> r, heap |-> h, err |-> err, status |-> status]

\* the reply to the outcome reg of registry.RegisterTool
registerReply(r, h, stored, reg) ==
  IF reg.err # NoError THEN HandlerReply(r, h, reg.err, 500)
  ELSE HandlerReply(reg.tr, stored, NoError, 200)

\* the end of the handler: the decoded tool a goes to the registry
registerDecoded(r, h, a) == registerReply(r, h, a.heap, RegisterTool(r, a.heap, a.tool))

\* a handler that compares the checksum before it looks at the description
RegisterToolHandler_checksumFirst(r, h, tool) ==
  LET descErr == ValidateToolDescription(tool.Description)
      cs == GenerateToolChecksum(tool)
  IN  IF IsEmpty(tool.SecurityMetadata)
      THEN HandlerReply(r, h, "no security metadata found", 400)
      ELSE IF cs.err THEN HandlerReply(r, h, "json error", 500)
      ELSE IF cs.out # tool.SecurityMetadata.Checksum
      THEN HandlerReply(r, h, "invalid tool: checksum mismatch", 400)
      ELSE IF descErr # << >>
      THEN HandlerReply(r, h, "tool registration failed. description invalid", 400)
      ELSE HandlerReply(r, h, "invalid tool: fingerprint mismatch", 400)

RegisterToolHandler(r, h, tool) ==
  LET descErr == ValidateToolDescription(tool.Description)
      cs == GenerateToolChecksum(tool)
      fp == GenerateSchemaFingerprint(tool.InputSchema)
  IN  IF IsEmpty(tool.SecurityMetadata)
      THEN HandlerReply(r, h, "no security metadata found", 400)
      ELSE IF descErr # << >>
      THEN HandlerReply(r, h, "tool registration failed. description invalid", 400)
      ELSE IF cs.err THEN HandlerReply(r, h, "json error", 500)
      ELSE IF cs.out # tool.SecurityMetadata.Checksum
      THEN HandlerReply(r, h, "invalid tool: checksum mismatch", 400)
      ELSE IF fp.err THEN HandlerReply(r, h, "json error", 500)
      ELSE IF fp.out # tool.SecurityMetadata.Signature
      THEN HandlerReply(r, h, "invalid tool: fingerprint mismatch", 400)
      ELSE registerDecoded(r, h, Alloc(h, tool))

\* security metadata of a submission: none; a source only; the stamps of
\* SecureTool; a signature with the checksum GenerateToolChecksum gives for
\* the tool before the checksum is put in; a checksum without signature
Stamped(tool) ==
  LET signed == [tool EXCEPT !.SecurityMetadata.Signature =
                   GenerateSchemaFingerprint(tool.InputSchema).out]
  IN  { tool,
        [tool EXCEPT !.SecurityMetadata.Source = "acme"],
        SecureTool(tool).out,
        [signed EXCEPT !.SecurityMetadata.Checksum = GenerateToolChecksum(signed).out],
        [tool EXCEPT !.SecurityMetadata.Checksum = GenerateToolChecksum(tool).out] }

Registrations ==
  UNION { Stamped(MkTool(name, description, schema)) :
            name \in Names, description \in {"A test tool", HiddenDescription},
            schema \in {SchemaA, SchemaB, RawBad} }

InitRegister ==
  /\ \E withBeta, checking \in BOOLEAN :
       /\ tr = BulkRegistry(withBeta, checking).tr
       /\ heap = BulkRegistry(withBeta, checking).heap
  /\ ret = [op |-> "NewHandler", arg |-> ZeroTool, err |-> NoError, status |-> 0,
            before |-> NoTools]
  /\ pure = PureOff
  /\ procs = NoProcs

RegisterToolHandlerCall ==
  \E tool \in Registrations :
    LET reply == RegisterToolHandler(tr, heap, tool)
    IN  /\ tr' = reply.tr
        /\ heap' = reply.heap
        /\ ret' = [op |-> "RegisterToolHandler", arg |-> tool, err |-> reply.err,
                   status |-> reply.status, before |-> Stored(tr, heap)]
        /\ UNCHANGED <<pure, procs>>

NextRegister == RegisterToolHandlerCall

SpecRegister == InitRegister /\ [][NextRegister]_vars

\* the conditions of the handler on a submission, in its order
HasMetadata(tool) ==
  \E f \in {"Source", "PublicKeyID", "Version"} : tool.SecurityMetadata[f] # ""

HasStamp(tool) ==
  \/ tool.SecurityMetadata.Signature # NoStamp
  \/ tool.SecurityMetadata.Checksum # NoStamp

CleanDescription(tool) == tool.Description # HiddenDescription

ChecksumGiven(tool) ==
  GenerateToolChecksum(tool) = Ok(tool.SecurityMetadata.Checksum)

SignatureGiven(tool) ==
  GenerateSchemaFingerprint(tool.InputSchema) = Ok(tool.SecurityMetadata.Signature)

\* C25: RegisterToolHandler adds a tool only if, checked in this order, the
\* security metadata is not empty, the description has no hidden character,
\* the supplied checksum is the computed one and the supplied signature is
\* the computed fingerprint of inputSchema; the first condition that fails
\* decides the error, and on any rejection the registry is unchanged.
C25_RegisterChecks ==
  ret.op = "RegisterToolHandler" =>
    LET tool == ret.arg
        added == Stored(tr, heap) # ret.before
    IN  /\ added => /\ (HasMetadata(tool) \/ HasStamp(tool)) /\ CleanDescription(tool)
                    /\ ChecksumGiven(tool) /\ SignatureGiven(tool)
        /\ ret.err # NoError => ~added
        /\ ~(HasMetadata(tool) \/ HasStamp(tool)) => ret.err = "no security metadata found"
        /\ ((HasMetadata(tool) \/ HasStamp(tool)) /\ ~CleanDescription(tool))
             => ret.err = "tool registration failed. description invalid"
        /\ ((HasMetadata(tool) \/ HasStamp(tool)) /\ CleanDescription(tool)
            /\ ~ChecksumGiven(tool))
             => ret.err \in {"json error", "invalid tool: checksum mismatch"}
        /\ ((HasMetadata(tool) \/ HasStamp(tool)) /\ CleanDescription(tool)
            /\ ChecksumGiven(tool) /\ ~SignatureGiven(tool))
             => ret.err \in {"json error", "invalid tool: fingerprint mismatch"}

\* a stamped submission with a hidden character and a checksum that is not
\* the computed one: refused for its description, nothing stored
C25_Witness ==
  /\ ret.op = "RegisterToolHandler"
  /\ HasStamp(ret.arg) /\ ~CleanDescription(ret.arg) /\ ~ChecksumGiven(ret.arg)
  /\ ret.err = "tool registration failed. description invalid"
  /\ ret.status = 400
  /\ Stored(tr, heap) = ret.before

(***************************************************************************)
(* The TCP proxy: handleConnection runs proxyStream from the client to the *)
(* server with validateAndForward in a goroutine and proxyStream from the  *)
(* server to the client with passthrough.  A line of the client is the     *)
(* JSON-RPC request it decodes to, or no JSON at all; params is the tool   *)
(* it decodes to, or bytes json.Unmarshal refuses.                         *)
(***************************************************************************)
MaxLines == 2     \* lines each side sends on one connection

INVALID_REQUEST == -32600

JSONRPCRequest(wellFormed, method, paramsOk, tool) ==
  [wellFormed |-> wellFormed, method |-> method, paramsOk |-> paramsOk, tool |-> tool]

NoRequest == JSONRPCRequest(FALSE, "", FALSE, ZeroTool)

\* what a transform hands to proxyStream: the bytes to write, and the error
Processed(kind, code, req, err) == [kind |-> kind, code |-> code, req |-> req, err |-> err]

\* json.Marshal(codec.JSONRPCError{Code: codec.INVALID_REQUEST})
JSONRPCError(code) == Processed("error", code, NoRequest, NoError)

\* a proxy that forwards without looking at the description
validateAndForward_noDescription(data) ==
  LET input == ValidateToolInputSchema(data.tool, data.tool.Arguments)
  IN  IF ~data.wellFormed THEN Processed("", 0, NoRequest, <<"json error">>)
      ELSE IF data.method = "tool.call" /\ ~data.paramsOk
      THEN Processed("", 0, NoRequest, <<"json error">>)
      ELSE IF data.method = "tool.call" /\ input.err # NoError
      THEN Processed("", 0, NoRequest, input.err)
      ELSE IF data.method = "tool.call" /\ input.status = StatusSucceeded
      THEN Processed("request", 0, data, NoError)
      ELSE JSONRPCError(INVALID_REQUEST)

validateAndForward(data) ==
  LET input == ValidateToolInputSchema(data.tool, data.tool.Arguments)
      descErr == ValidateToolDescription(data.tool.Description)
  IN  IF ~data.wellFormed THEN Processed("", 0, NoRequest, <<"json error">>)
      ELSE IF data.method = "tool.call" /\ ~data.paramsOk
      THEN Processed("", 0, NoRequest, <<"json error">>)
      ELSE IF data.method = "tool.call" /\ input.err # NoError
      THEN Processed("", 0, NoRequest, input.err)
      ELSE IF data.method = "tool.call" /\ input.status = StatusSucceeded
                /\ descErr # << >>
      THEN Processed("", 0, NoRequest, descErr)
      ELSE IF data.method = "tool.call" /\ input.status = StatusSucceeded
      THEN Processed("request", 0, data, NoError)
      ELSE JSONRPCError(INVALID_REQUEST)

\* a stream that skips a line it cannot process and reads on
proxyStream_skip(stream, line, processed) ==
  IF processed.err # NoError
  THEN [stream EXCEPT !.in = Tail(@), !.log = Append(@, [line |-> line, res |-> processed])]
  ELSE [stream EXCEPT !.in = Tail(@), !.out = Append(@, processed),
                      !.log = Append(@, [line |-> line, res |-> processed])]

\* one turn of the loop of proxyStream after ReadBytes returned line: the
\* stream ends at a transform error, else the processed bytes are written
proxyStream(stream, line, processed) ==
  IF processed.err # NoError
  THEN [stream EXCEPT !.in = Tail(@), !.running = FALSE,
                      !.log = Append(@, [line |-> line, res |-> processed])]
  ELSE [stream EXCEPT !.in = Tail(@), !.out = Append(@, processed),
                      !.log = Append(@, [line |-> line, res |-> processed])]

passthrough(data) == Processed("request", 0, data, NoError)

CallOf(description, schema, arguments) ==
  JSONRPCRequest(TRUE, "tool.call", TRUE,
    [MkTool("alpha", description, schema) EXCEPT !.Arguments = arguments])

\* lines of a client: no JSON; another method; tool.call with params that
\* are no tool; tool.call with arguments that validate, with a hidden
\* character, with arguments that violate the schema, without schema, with a
\* schema that does not compile
ClientLines ==
  { NoRequest,
    JSONRPCRequest(TRUE, "initialize", TRUE, ZeroTool),
    JSONRPCRequest(TRUE, "tool.call", FALSE, ZeroTool),
    CallOf("A test tool", SchemaNumberA, SchemaA),
    CallOf(HiddenDescription, SchemaNumberA, SchemaA),
    CallOf("A test tool", SchemaNumberA, JObj(<< Member("a", JText("x")) >>, FALSE)),
    CallOf("A test tool", RawNil, SchemaA),
    CallOf("A test tool", JObj(<< TypeIs("invalid-type") >>, FALSE), SchemaA) }

ServerLines ==
  { JSONRPCRequest(TRUE, "result", TRUE, ZeroTool),
    JSONRPCRequest(TRUE, "notify", TRUE, ZeroTool) }

Stream(lines) == [in |-> lines, out |-> << >>, log |-> << >>, running |-> TRUE]

InitProxy ==
  /\ tr = NewToolRegistry(TRUE)
  /\ heap = << >>
  /\ ret = Ret("NewToolRegistry", "", NoError, ZeroToolRef, ZeroToolSet, ZeroTool)
  /\ pure = PureOff
  /\ \E c \in UNION {[1..n -> ClientLines] : n \in 0..MaxLines},
        s \in UNION {[1..n -> ServerLines] : n \in 0..MaxLines} :
       procs = [up |-> Stream(c), down |-> Stream(s)]

\* the goroutine: read a line of the client, transform, write to the server
ClientToServer ==
  /\ procs.up.running /\ procs.up.in # << >>
  /\ procs' = [procs EXCEPT !.up =
                 proxyStream(@, Head(@.in), validateAndForward(Head(@.in)))]
  /\ UNCHANGED <<tr, heap, ret, pure>>

\* the client closed its side: ReadBytes returns io.EOF
ClientEOF ==
  /\ procs.up.running /\ procs.up.in = << >>
  /\ procs' = [procs EXCEPT !.up.running = FALSE]
  /\ UNCHANGED <<tr, heap, ret, pure>>

\* read a line of the server, write it to the client
ServerToClient ==
  /\ procs.down.running /\ procs.down.in # << >>
  /\ procs' = [procs EXCEPT !.down =
                 proxyStream(@, Head(@.in), passthrough(Head(@.in)))]
  /\ UNCHANGED <<tr, heap, ret, pure>>

\* the server closed: proxyStream returns to handleConnection, whose
\* deferred Close calls end both connections
ServerEOF ==
  /\ procs.down.running /\ procs.down.in = << >>
  /\ procs' = [procs EXCEPT !.down.running = FALSE, !.up.running = FALSE]
  /\ UNCHANGED <<tr, heap, ret, pure>>

NextProxy ==
  \/ ClientToServer
  \/ ClientEOF
  \/ ServerToClient
  \/ ServerEOF

SpecProxy == InitProxy /\ [][NextProxy]_vars

\* a tool.call whose arguments validate and whose description is clean
Forwardable(line) ==
  /\ line.wellFormed /\ line.method = "tool.call" /\ line.paramsOk
  /\ ValidateToolInputSchema(line.tool, line.tool.Arguments).status = StatusSucceeded
  /\ Len(DetectHiddenUnicode(DescriptionText(line.tool.Description))) = 0

\* the successful turns of a stream, in order
RECURSIVE Written(_)
Written(log) ==
  IF log = << >> THEN << >>
  ELSE IF log[1].res.err # NoError THEN Written(Tail(log))
  ELSE << log[1].res >> \o Written(Tail(log))

\* C26: the proxy forwards a client request to the server only if it is a
\* tool.call whose arguments validated with status Succeeded and whose
\* description has no hidden character; every other well-formed JSON-RPC
\* message (a method other than tool.call) is not forwarded: an
\* INVALID_REQUEST error object is written toward the server in its place.
C26_ForwardOnlyValidated ==
  /\ procs.up.out = Written(procs.up.log)
  /\ \A i \in DOMAIN procs.up.log :
       LET line == procs.up.log[i].line
           res == procs.up.log[i].res
       IN  /\ (res.err = NoError /\ res.kind = "request")
                => Forwardable(line) /\ res.req = line
           /\ (line.wellFormed /\ line.method # "tool.call")
                => res = JSONRPCError(INVALID_REQUEST)

\* a validated tool.call and an initialize, both answered toward the server
C26_Witness ==
  /\ Len(procs.up.out) = 2
  /\ procs.up.out[1].kind = "request" /\ procs.up.out[1].req.method = "tool.call"
  /\ procs.up.out[2] = JSONRPCError(INVALID_REQUEST)
  /\ procs.up.log[2].line.method = "initialize"

\* C27: on one connection the client-to-server stream stops at the first
\* message that fails processing: that message is not written to the server
\* and no later client message is read or forwarded, while the failing turn
\* leaves the server-to-client direction as it was.
C27_StopsAtFirstError ==
  /\ [](\A i \in DOMAIN procs.up.log :
          procs.up.log[i].res.err # NoError
            => /\ i = Len(procs.up.log)
               /\ ~procs.up.running
               /\ Len(procs.up.out) = i - 1)
  /\ [][(procs.up.running /\ ~procs'.up.running /\ procs'.up.log # procs.up.log)
          => /\ procs'.down = procs.down
             /\ procs'.up.out = procs.up.out]_vars
  /\ [][(~procs.up.running) => procs'.up.out = procs.up.out]_vars

\* the first line failed with another line behind it; the server's line
\* reached the client afterwards
C27_Witness ==
  /\ Len(procs.up.log) = 1 /\ procs.up.log[1].res.err # NoError
  /\ procs.up.in # << >> /\ procs.up.out = << >>
  /\ Forwardable(procs.up.in[1])
  /\ Len(procs.down.out) = 2

(***************************************************************************)
(* CodeHasherHandler: every request of handleHashString calls              *)
(* GenerateStringHash on the one CodeHasher of the handler, and net/http   *)
(* serves each request in its own goroutine.  The hasher is the stream     *)
(* written since the last Reset; a call is its Reset, its writes and its   *)
(* Sum, with nothing that keeps another call from running in between.      *)
(***************************************************************************)
HashRequests ==
  [code : {<<"a">>, <<"b", " ">>},
   dependencies : {<< >>, << <<"a">> >>, << <<"b">>, <<"a">> >>}]

NoCall == [pc |-> "idle", code |-> << >>, dependencies |-> << >>,
           sortedDeps |-> << >>, hash |-> NoStamp]

\* NewCodeHasherHandler: one hasher, and the requests in flight
InitHasher ==
  /\ tr = NewToolRegistry(TRUE)
  /\ heap = << >>
  /\ ret = Ret("NewToolRegistry", "", NoError, ZeroToolRef, ZeroToolSet, ZeroTool)
  /\ pure = PureOff
  /\ procs = [hasher |-> << >>, c |-> [p \in Callers |-> NoCall]]

HasherStep(next) ==
  /\ procs' = next
  /\ UNCHANGED <<tr, heap, ret, pure>>

\* handleHashString decodes a request and calls GenerateStringHash:
\* ch.hasher.Reset()
HashReset(p) ==
  /\ procs.c[p].pc = "idle"
  /\ \E req \in HashRequests :
       HasherStep([procs EXCEPT
         !.hasher = << >>,
         !.c[p] = [NoCall EXCEPT !.pc = "code", !.code = req.code,
                                 !.dependencies = req.dependencies]])

\* ch.hashString(normalizedCode), and the sorted copy of the dependencies
HashWriteCode(p) ==
  /\ procs.c[p].pc = "code"
  /\ HasherStep([procs EXCEPT
       !.hasher = hashString(@, normalizeCode(procs.c[p].code)),
       !.c[p].pc = "deps",
       !.c[p].sortedDeps = SortStrings(procs.c[p].dependencies)])

\* ch.hashString("dep:" + dep) for the next dependency
HashWriteDep(p) ==
  /\ procs.c[p].pc = "deps"
  /\ procs.c[p].sortedDeps # << >>
  /\ HasherStep([procs EXCEPT
       !.hasher = hashString(@, <<"dep:">> \o Head(procs.c[p].sortedDeps)),
       !.c[p].sortedDeps = Tail(@)])

\* fmt.Sprintf("%x", ch.hasher.Sum(nil))
HashSum(p) ==
  /\ procs.c[p].pc = "deps"
  /\ procs.c[p].sortedDeps = << >>
  /\ HasherStep([procs EXCEPT !.c[p].pc = "done",
                              !.c[p].hash = sha256hex(procs.hasher)])

NextHasher ==
  \/ \E p \in Callers : HashReset(p)
  \/ \E p \in Callers : HashWriteCode(p)
  \/ \E p \in Callers : HashWriteDep(p)
  \/ \E p \in Callers : HashSum(p)

SpecHasher == InitHasher /\ [][NextHasher]_vars

\* C30: two GenerateStringHash calls that run concurrently on the CodeHasher
\* of one CodeHasherHandler each return the hash of their own input: under
\* every interleaving of their Reset, write and Sum steps a call returns what
\* it returns when run alone.
C30_OwnHash ==
  \A p \in Callers :
    procs.c[p].pc = "done"
      => procs.c[p].hash = GenerateStringHash(procs.c[p].code, procs.c[p].dependencies)

====
